---- MODULE Spec2Model ----
(***************************************************************************)
(* Control plane of the remote sensor data server: the challenge table,    *)
(* the sensor registry and the register_sensor / deregister_sensor         *)
(* handlers with their shared authentication pipeline                      *)
(* (server/src/http_server.rs).                                            *)
(*                                                                         *)
(* Cryptography is symbolic: a signature is the pair (signing key,         *)
(* message) and verifies under the matching public key over exactly that   *)
(* message.  A 64-byte random challenge is a number; every challenge the   *)
(* server generates is a value it has not generated before.                *)
(***************************************************************************)
EXTENDS Integers, Sequences, FiniteSets, TLC

\* ------------------------------------------------------------------ bounds

\* Number of challenges the server generates in one run.
NumChallenges == 2

\* ------------------------------------------------------- program constants

OK           == 200
BAD_REQUEST  == 400
UNAUTHORIZED == 401
FORBIDDEN    == 403
NOT_FOUND    == 404
CONFLICT     == 409

\* ------------------------------------------------------------- data model

\* The user table built at start-up: user name -> verification key.  A key
\* is named after the key pair it belongs to.
authorized_users == [u \in {"A", "B"} |-> IF u = "A" THEN "kA" ELSE "kB"]

\* User names a client may put in a path or a header.
UserNames == {"A", "B", "nobody"}

Keys == {authorized_users[u] : u \in DOMAIN authorized_users}

Challenges == 1 .. NumChallenges

\* The fields, field types and interval of the client's example sensor.
EXAMPLE_FIELDS   == <<"x_accel">>
EXAMPLE_TYPES    == <<"Integer">>
EXAMPLE_INTERVAL == 10

\* A request body is a byte string: a JSON object with the values it gives
\* to the fields of Sensor, or the AES-256-GCM encryption of one (sealed).
\* `complete` tells whether the object carries every field of Sensor; an
\* incomplete body still carries the name.
JsonBody(name, key, fields, field_types, interval, complete) ==
    [name |-> name, key |-> key, fields |-> fields, field_types |-> field_types,
     interval |-> interval, complete |-> complete, sealed |-> FALSE]

\* A body with the fields, field types and interval of the example sensor.
Body(name, key, complete) ==
    JsonBody(name, key, EXAMPLE_FIELDS, EXAMPLE_TYPES, EXAMPLE_INTERVAL, complete)

Bodies ==
    { Body("s1", 1, TRUE),
      Body("s1", 2, TRUE),
      Body("s2", 1, TRUE),
      Body("s1", 1, FALSE) }

NoBody == JsonBody("", 0, <<>>, <<>>, 0, FALSE)

\* The Sensor record a body deserializes to (key stands for the key
\* material: the key and the iv).
SensorOf(body) ==
    [name |-> body.name, key |-> body.key, fields |-> body.fields,
     field_types |-> body.field_types, interval |-> body.interval]

\* The Sensor record of the example sensor's kind.
Sensor(name, key) == SensorOf(Body(name, key, TRUE))

NoSensor == SensorOf(NoBody)

\* A deserializer that fills in the fields a body lacks.
from_slice_Lenient(body) ==
    [ok |-> TRUE, sensor |-> SensorOf(body)]

\* serde_json::from_slice::<Sensor>(body): bytes that are no JSON object
\* with every field of Sensor give an error.
from_slice(body) ==
    IF body.complete /\ ~body.sealed
    THEN [ok |-> TRUE, sensor |-> SensorOf(body)]
    ELSE [ok |-> FALSE, sensor |-> NoSensor]

\* Messages that get signed: the bytes of a challenge, or of a body.
ChallengeMsg(c) == [chal |-> c, body |-> NoBody]
BodyMsg(b)      == [chal |-> 0, body |-> b]

\* signing_key.sign(msg)
Sign(k, msg) == [signer |-> k, msg |-> msg]

\* Bytes that are the signature of nothing under any key.
Junk == [signer |-> "none", msg |-> [chal |-> 0, body |-> NoBody]]

\* A verification that accepts the signature of any authorized key, not
\* only the key of the user named in the request.
Verify_AnyKey(vk, msg, sig) == sig.signer \in Keys /\ sig.msg = msg

\* verifying_key.verify(msg, signature).is_ok()
Verify(vk, msg, sig) == sig.signer = vk /\ sig.msg = msg

\* Signature::try_from(bytes): the conversion accepts every byte string
\* (the repository's tests pass b"junk data" through it and expect the
\* later 403).
SignatureTryFromOk(bytes) == TRUE

\* ---------------------------------------------------------------- headers

\* A header is absent, present with bytes that are not UTF-8, or text.  The
\* text of the challenge and signature headers is either not base64 or the
\* base64 encoding of some bytes.
Header(st, val) == [st |-> st, val |-> val]

contains_key(h)  == h.st # "absent"
to_str_ok(h)     == h.st # "nonutf8"
base64_decode_ok(h) == h.st = "b64"

UserHeaders ==
    {Header("absent", ""), Header("nonutf8", "")}
        \cup {Header("text", u) : u \in UserNames}

KeyHeaders ==
    {Header("absent", ""), Header("nonutf8", ""), Header("text", "junk")}

SigHeaders(sigs) ==
    {Header("absent", Junk), Header("nonutf8", Junk), Header("notb64", Junk)}
        \cup {Header("b64", s) : s \in sigs}

ChallengeHeaders ==
    SigHeaders({Junk} \cup {Sign(k, ChallengeMsg(c)) : k \in Keys, c \in Challenges})

SignatureHeaders(body) ==
    SigHeaders({Junk} \cup {Sign(k, BodyMsg(body)) : k \in Keys})

Kinds == {"register", "deregister"}

Request(kind, user, key, challenge, signature, body) ==
    [kind |-> kind, user |-> user, key |-> key, challenge |-> challenge,
     signature |-> signature, body |-> body]

\* Every request shape of the model.
Requests ==
    UNION { { Request(kind, u, k, c, s, b) :
                kind \in Kinds, u \in UserHeaders, k \in KeyHeaders,
                c \in ChallengeHeaders, s \in SignatureHeaders(b) } :
            b \in Bodies }

NoRequest ==
    Request("none", Header("absent", ""), Header("absent", ""),
            Header("absent", Junk), Header("absent", Junk), NoBody)

\* ------------------------------------------- the authentication pipeline

Rejected(status) == [status |-> status, some |-> FALSE, sensor |-> NoSensor]
Accepted(sensor) == [status |-> OK, some |-> TRUE, sensor |-> sensor]

\* The presence test without the header the server never reads.
HeadersPresent_NoKey(req) ==
    /\ contains_key(req.user)
    /\ contains_key(req.signature)
    /\ contains_key(req.challenge)

\* The four headers are present.
HeadersPresent(req) ==
    /\ contains_key(req.user)
    /\ contains_key(req.signature)
    /\ contains_key(req.key)
    /\ contains_key(req.challenge)

\* Each header value is UTF-8.
HeadersUtf8(req) ==
    /\ to_str_ok(req.user)
    /\ to_str_ok(req.signature)
    /\ to_str_ok(req.key)
    /\ to_str_ok(req.challenge)

\* A challenge check that accepts the user's signature over the stored
\* challenge or over any challenge number below it.
ChallengeVerified_Stale(req, users, challenges) ==
    /\ req.user.val \in DOMAIN challenges
    /\ \E c \in 1 .. challenges[req.user.val] :
          Verify(users[req.user.val], ChallengeMsg(c), req.challenge.val)

\* The read-lock scope: the user has a stored challenge and the challenge
\* header is the user's signature over it.
ChallengeVerified(req, users, challenges) ==
    /\ req.user.val \in DOMAIN challenges
    /\ Verify(users[req.user.val],
              ChallengeMsg(challenges[req.user.val]), req.challenge.val)

\* The signature header is the user's signature over the raw body.
BodyVerified(req, users) ==
    Verify(users[req.user.val], BodyMsg(req.body), req.signature.val)

\* The pipeline with both base64 headers decoded before the user is looked
\* up.
authenticate_DecodeFirst(req, users, challenges) ==
    IF ~HeadersPresent(req) THEN Rejected(BAD_REQUEST)
    ELSE IF ~HeadersUtf8(req) THEN Rejected(BAD_REQUEST)
    ELSE IF ~base64_decode_ok(req.challenge) THEN Rejected(BAD_REQUEST)
    ELSE IF ~base64_decode_ok(req.signature) THEN Rejected(BAD_REQUEST)
    ELSE IF req.user.val \notin DOMAIN users THEN Rejected(UNAUTHORIZED)
    ELSE IF ~ChallengeVerified(req, users, challenges) THEN Rejected(FORBIDDEN)
    ELSE IF ~BodyVerified(req, users) THEN Rejected(UNAUTHORIZED)
    ELSE IF ~from_slice(req.body).ok THEN Rejected(BAD_REQUEST)
    ELSE Accepted(from_slice(req.body).sensor)

\* The pipeline with the signature header decoded before the challenge is
\* checked.
authenticate_SignatureDecodedEarly(req, users, challenges) ==
    IF ~HeadersPresent(req) THEN Rejected(BAD_REQUEST)
    ELSE IF ~HeadersUtf8(req) THEN Rejected(BAD_REQUEST)
    ELSE IF req.user.val \notin DOMAIN users THEN Rejected(UNAUTHORIZED)
    ELSE IF ~base64_decode_ok(req.challenge) THEN Rejected(BAD_REQUEST)
    ELSE IF ~base64_decode_ok(req.signature) THEN Rejected(BAD_REQUEST)
    ELSE IF ~ChallengeVerified(req, users, challenges) THEN Rejected(FORBIDDEN)
    ELSE IF ~BodyVerified(req, users) THEN Rejected(UNAUTHORIZED)
    ELSE IF ~from_slice(req.body).ok THEN Rejected(BAD_REQUEST)
    ELSE Accepted(from_slice(req.body).sensor)

\* The pipeline with the body deserialized before its signature is verified.
authenticate_ParseBeforeVerify(req, users, challenges) ==
    IF ~HeadersPresent(req) THEN Rejected(BAD_REQUEST)
    ELSE IF ~HeadersUtf8(req) THEN Rejected(BAD_REQUEST)
    ELSE IF req.user.val \notin DOMAIN users THEN Rejected(UNAUTHORIZED)
    ELSE IF ~base64_decode_ok(req.challenge) THEN Rejected(BAD_REQUEST)
    ELSE IF ~ChallengeVerified(req, users, challenges) THEN Rejected(FORBIDDEN)
    ELSE IF ~base64_decode_ok(req.signature) THEN Rejected(BAD_REQUEST)
    ELSE IF ~from_slice(req.body).ok THEN Rejected(BAD_REQUEST)
    ELSE IF ~BodyVerified(req, users) THEN Rejected(UNAUTHORIZED)
    ELSE Accepted(from_slice(req.body).sensor)

\* The request gets as far as the read-lock scope of the pipeline: none of
\* the checks in front of it rejects it.
ReachesLock(req, users) ==
    /\ HeadersPresent(req)
    /\ HeadersUtf8(req)
    /\ req.user.val \in DOMAIN users
    /\ base64_decode_ok(req.challenge)
    /\ SignatureTryFromOk(req.challenge.val)

\* authenticate_and_parse_sensor(headers, body, authorized_users,
\* user_challenges) -> (StatusCode, Option<Sensor>), check by check in the
\* order of the code.
authenticate_and_parse_sensor(req, users, challenges) ==
    IF ~HeadersPresent(req) THEN Rejected(BAD_REQUEST)
    ELSE IF ~HeadersUtf8(req) THEN Rejected(BAD_REQUEST)
    ELSE IF req.user.val \notin DOMAIN users THEN Rejected(UNAUTHORIZED)
    ELSE IF ~base64_decode_ok(req.challenge) THEN Rejected(BAD_REQUEST)
    ELSE IF ~SignatureTryFromOk(req.challenge.val) THEN Rejected(BAD_REQUEST)
    ELSE IF ~ChallengeVerified(req, users, challenges) THEN Rejected(FORBIDDEN)
    ELSE IF ~base64_decode_ok(req.signature) THEN Rejected(BAD_REQUEST)
    ELSE IF ~SignatureTryFromOk(req.signature.val) THEN Rejected(BAD_REQUEST)
    ELSE IF ~BodyVerified(req, users) THEN Rejected(UNAUTHORIZED)
    ELSE IF ~from_slice(req.body).ok THEN Rejected(BAD_REQUEST)
    ELSE Accepted(from_slice(req.body).sensor)

\* ------------------------------------------------------------------ state

\* The handler tasks that run side by side.
Tasks == {"t1", "t2"}

VARIABLES
    sensors,          \* the registry: sensor name -> Sensor
    user_challenges,  \* the challenge table: user -> active challenge
    issued,           \* issued[c]: the user that challenge c was generated for
    write_lock,       \* the task holding the registry's write lock, or "free"
    challenge_lock,   \* the tasks holding the challenge table's read lock
    pc,               \* pc[t]: where handler task t stands
    request,          \* request[t]: the request task t is serving
    sensor,           \* sensor[t]: the Sensor parsed from the request
    status,           \* status[t]: the status code task t answers with
    returned,         \* the challenges whose handler has returned, in that order
    stream,           \* the bytes of the data connection not read yet
    sent,             \* what the peer put on the connection: garbage, frames, cut
    conn,             \* where the connection task stands in its loop
    sensor_name,      \* the decoded sensor name of the frame being read
    counter,          \* its five counter bytes
    encrypted_packet_size,  \* its length byte
    encrypted_packet, \* its encrypted packet
    cipher,           \* the key copied from the registry at dispatch
    nonce,            \* the nonce built at dispatch
    log,              \* the decrypted packets logged, in order
    close_event,      \* the level of the event logged when the task returned
    read_lock,        \* the connection tasks holding the registry's read lock
    acked,            \* acked[n]: the 200 last returned for sensor name n
    sensor_counter,   \* the firmware's frame counter
    prev_interval,    \* the key interval the firmware's key belongs to
    ccm_data,         \* the firmware's key, packet counter and iv
    seed,             \* the firmware's hash input: interval bytes, then the rest
    other             \* where the task of a second data connection stands

\* The state of the control plane.
ctlVars == <<sensors, user_challenges, issued, write_lock, challenge_lock,
             pc, request, sensor, status>>

\* The state of the data connection's task.
tcpVars == <<stream, sent, conn, sensor_name, counter, encrypted_packet_size,
             encrypted_packet, cipher, nonce, log, close_event, read_lock>>

\* The state of the sensor firmware.
sensorVars == <<sensor_counter, prev_interval, ccm_data, seed>>

\* The state of a second data connection's task.
otherVars == <<other>>

vars == <<ctlVars, returned, tcpVars, acked, sensorVars, otherVars>>

\* The empty map.
EmptyMap == [x \in {} |-> 0]

\* HashMap::insert(k, v): adds the entry or replaces the one under k.
insert(map, k, v) == [x \in DOMAIN map \cup {k} |-> IF x = k THEN v ELSE map[x]]

\* HashMap::remove(k)
remove(map, k) == [x \in DOMAIN map \ {k} |-> map[x]]

\* No handler task is running.
TasksIdle ==
    /\ write_lock = "free"
    /\ challenge_lock = {}
    /\ pc = [t \in Tasks |-> "idle"]
    /\ request = [t \in Tasks |-> NoRequest]
    /\ sensor = [t \in Tasks |-> NoSensor]
    /\ status = [t \in Tasks |-> 0]
    /\ returned = <<>>
    /\ acked = [n \in {b.name : b \in Bodies} |-> "none"]

\* The locals of handle_data_client at the top of its loop.
LoopTop ==
    /\ sensor_name = ""
    /\ counter = <<>>
    /\ encrypted_packet_size = 0
    /\ encrypted_packet = <<>>
    /\ cipher = 0
    /\ nonce = <<>>

\* No data connection has been accepted.
NoConnection ==
    /\ stream = <<>>
    /\ sent = [garbage |-> <<>>, frames |-> <<>>, cut |-> 0]
    /\ conn = "closed"
    /\ log = <<>>
    /\ close_event = "none"
    /\ read_lock = {}
    /\ other = "none"
    /\ LoopTop

\* The firmware when it enters its loop: key material 1 (the key and the
\* iv of the example sensor), a seed of zero bytes, and both counters at 1
\* after the encrypt_data call whose output is not sent.
Boot ==
    /\ sensor_counter = 1
    /\ prev_interval = 0
    /\ ccm_data = [key |-> 1, packet_counter |-> 1, iv |-> 1]
    /\ seed = [interval |-> 0, rest |-> 0]

\* The server after start-up: empty registry, empty challenge table.
Init ==
    /\ sensors = EmptyMap
    /\ user_challenges = EmptyMap
    /\ issued = <<>>
    /\ TasksIdle
    /\ NoConnection
    /\ Boot

\* ---------------------------------------------------------------- actions

\* state.user_challenges.write().await: no task holds the table's read
\* lock.  (The write guard is taken, used and dropped without an await in
\* between, in the step of the handler that takes it.)
ChallengeWriteFree == challenge_lock = {}

\* The challenge handler keeping the challenge a user already has.
challenge_KeepFirst(user) ==
    /\ Len(issued) < NumChallenges
    /\ ChallengeWriteFree
    /\ LET c == Len(issued) + 1 IN
        /\ issued' = Append(issued, user)
        /\ user_challenges' =
              IF user \in DOMAIN authorized_users /\ user \notin DOMAIN user_challenges
              THEN insert(user_challenges, user, c)
              ELSE user_challenges
    /\ UNCHANGED <<challenge_lock, sensors, write_lock, pc, request, sensor, status>>

\* GET /challenge/{user}: generate a challenge and store it for a known user
\* (the handler up to the end of its write-lock scope).
challenge(user) ==
    /\ Len(issued) < NumChallenges
    /\ ChallengeWriteFree
    /\ LET c == Len(issued) + 1 IN
        /\ issued' = Append(issued, user)
        /\ user_challenges' =
              IF user \in DOMAIN authorized_users
              THEN insert(user_challenges, user, c)
              ELSE user_challenges
    /\ UNCHANGED <<challenge_lock, sensors, write_lock, pc, request, sensor, status>>

\* The elements of a sequence.
Range(seq) == {seq[i] : i \in 1 .. Len(seq)}

\* GET /challenge/{user}: the handler that generated challenge c returns it
\* to its client.
challenge_return(c) ==
    /\ c \in 1 .. Len(issued)
    /\ c \notin Range(returned)
    /\ returned' = Append(returned, c)
    /\ UNCHANGED <<ctlVars, tcpVars, acked, sensorVars, otherVars>>

\* A POST /register_sensor or /deregister_sensor arrives, one of `reqs`, and
\* a handler task starts on it.
Receive(t, reqs) ==
    /\ pc[t] = "idle"
    /\ \E req \in reqs : request' = [request EXCEPT ![t] = req]
    /\ pc' = [pc EXCEPT ![t] = "auth"]
    /\ UNCHANGED <<challenge_lock, sensors, user_challenges, issued, write_lock, sensor, status>>

\* user_challenges.read().await: a handler whose request has passed the
\* checks in front of the read-lock scope takes the table's read lock.
AcquireChallengeRead(t) ==
    /\ pc[t] = "auth"
    /\ t \notin challenge_lock
    /\ ReachesLock(request[t], authorized_users)
    /\ challenge_lock' = challenge_lock \cup {t}
    /\ UNCHANGED <<sensors, user_challenges, issued, write_lock, pc, request,
                   sensor, status>>

\* An authentication that uses the challenge up: a request that passes
\* leaves the user without a stored challenge.
Authenticate_Consume(t) ==
    /\ pc[t] = "auth"
    /\ t \in challenge_lock \/ ~ReachesLock(request[t], authorized_users)
    /\ challenge_lock' = challenge_lock \ {t}
    /\ LET res == authenticate_and_parse_sensor(request[t], authorized_users,
                                                user_challenges) IN
        /\ pc' = [pc EXCEPT ![t] = IF res.some THEN "acquire" ELSE "done"]
        /\ sensor' = [sensor EXCEPT ![t] = res.sensor]
        /\ status' = [status EXCEPT ![t] = IF res.some THEN 0 ELSE res.status]
        /\ user_challenges' = IF res.some
                              THEN remove(user_challenges, request[t].user.val)
                              ELSE user_challenges
    /\ UNCHANGED <<sensors, issued, write_lock, request>>

\* The pipeline going on with the table's read guard still in hand.
Authenticate_KeepGuard(t) ==
    /\ pc[t] = "auth"
    /\ t \in challenge_lock \/ ~ReachesLock(request[t], authorized_users)
    /\ challenge_lock' = challenge_lock
    /\ LET res == authenticate_and_parse_sensor(request[t], authorized_users,
                                                user_challenges) IN
        /\ pc' = [pc EXCEPT ![t] = IF res.some THEN "acquire" ELSE "done"]
        /\ sensor' = [sensor EXCEPT ![t] = res.sensor]
        /\ status' = [status EXCEPT ![t] = IF res.some THEN 0 ELSE res.status]
    /\ UNCHANGED <<sensors, user_challenges, issued, write_lock, request>>

\* The handler's call of authenticate_and_parse_sensor from where the read
\* lock is held, or as a whole for a request rejected in front of the lock
\* scope: the challenge table is read once, under its read lock, and the
\* guard is dropped.
Authenticate(t) ==
    /\ pc[t] = "auth"
    /\ t \in challenge_lock \/ ~ReachesLock(request[t], authorized_users)
    /\ challenge_lock' = challenge_lock \ {t}
    /\ LET res == authenticate_and_parse_sensor(request[t], authorized_users,
                                                user_challenges) IN
        /\ pc' = [pc EXCEPT ![t] = IF res.some THEN "acquire" ELSE "done"]
        /\ sensor' = [sensor EXCEPT ![t] = res.sensor]
        /\ status' = [status EXCEPT ![t] = IF res.some THEN 0 ELSE res.status]
    /\ UNCHANGED <<sensors, user_challenges, issued, write_lock, request>>

\* The write lock handed out although another task holds it.
WriteLockFree_Unguarded == TRUE

\* state.sensors.write().await: no task holds the write lock and no task
\* holds the read lock.
WriteLockFree == write_lock = "free" /\ read_lock = {}

\* sensors.read().await: no task holds the write lock.
ReadLockFree == write_lock = "free"

AcquireWrite(t) ==
    /\ pc[t] = "acquire"
    /\ WriteLockFree
    /\ write_lock' = t
    /\ pc' = [pc EXCEPT ![t] = "locked"]
    /\ UNCHANGED <<challenge_lock, sensors, user_challenges, issued, request, sensor, status>>

\* register_sensor without the contains_key test: a taken name goes on to
\* the insert.
RegisterCheck_NoConflict(t) ==
    /\ pc[t] = "locked"
    /\ request[t].kind = "register"
    /\ pc' = [pc EXCEPT ![t] = "insert"]
    /\ UNCHANGED <<challenge_lock, sensors, user_challenges, issued, request, sensor, status, write_lock>>

\* register_sensor dropping the record of a taken name while it answers
\* 409.
RegisterCheck_EvictOnConflict(t) ==
    /\ pc[t] = "locked"
    /\ request[t].kind = "register"
    /\ IF sensor[t].name \in DOMAIN sensors
       THEN /\ pc' = [pc EXCEPT ![t] = "done"]
            /\ status' = [status EXCEPT ![t] = CONFLICT]
            /\ write_lock' = "free"
            /\ sensors' = remove(sensors, sensor[t].name)
       ELSE /\ pc' = [pc EXCEPT ![t] = "insert"]
            /\ UNCHANGED <<status, write_lock, sensors>>
    /\ UNCHANGED <<challenge_lock, user_challenges, issued, request, sensor>>

\* register_sensor, under the write lock: the name is taken -> 409.
RegisterCheck(t) ==
    /\ pc[t] = "locked"
    /\ request[t].kind = "register"
    /\ IF sensor[t].name \in DOMAIN sensors
       THEN /\ pc' = [pc EXCEPT ![t] = "done"]
            /\ status' = [status EXCEPT ![t] = CONFLICT]
            /\ write_lock' = "free"
       ELSE /\ pc' = [pc EXCEPT ![t] = "insert"]
            /\ UNCHANGED <<status, write_lock>>
    /\ UNCHANGED <<challenge_lock, sensors, user_challenges, issued, request, sensor>>

\* register_sensor storing the record under the name of the requesting user.
RegisterInsert_UnderUser(t) ==
    /\ pc[t] = "insert"
    /\ sensors' = insert(sensors, request[t].user.val, sensor[t])
    /\ write_lock' = "free"
    /\ pc' = [pc EXCEPT ![t] = "done"]
    /\ status' = [status EXCEPT ![t] = OK]
    /\ UNCHANGED <<challenge_lock, user_challenges, issued, request, sensor>>

\* register_sensor, under the write lock: add the sensor, drop the lock, 200.
RegisterInsert(t) ==
    /\ pc[t] = "insert"
    /\ sensors' = insert(sensors, sensor[t].name, sensor[t])
    /\ write_lock' = "free"
    /\ pc' = [pc EXCEPT ![t] = "done"]
    /\ status' = [status EXCEPT ![t] = OK]
    /\ UNCHANGED <<challenge_lock, user_challenges, issued, request, sensor>>

\* deregister_sensor answering without taking the record out.
DeregisterRemove_KeepRecord(t) ==
    /\ pc[t] = "locked"
    /\ request[t].kind = "deregister"
    /\ sensors' = sensors
    /\ status' = [status EXCEPT ![t] =
                    IF sensor[t].name \in DOMAIN sensors THEN OK ELSE NOT_FOUND]
    /\ write_lock' = "free"
    /\ pc' = [pc EXCEPT ![t] = "done"]
    /\ UNCHANGED <<challenge_lock, user_challenges, issued, request, sensor>>

\* deregister_sensor answering 200 whether or not the name was there.
DeregisterRemove_AlwaysOk(t) ==
    /\ pc[t] = "locked"
    /\ request[t].kind = "deregister"
    /\ sensors' = remove(sensors, sensor[t].name)
    /\ status' = [status EXCEPT ![t] = OK]
    /\ write_lock' = "free"
    /\ pc' = [pc EXCEPT ![t] = "done"]
    /\ UNCHANGED <<challenge_lock, user_challenges, issued, request, sensor>>

\* deregister_sensor, under the write lock: remove the name; 200 when it was
\* there, 404 when not.
DeregisterRemove(t) ==
    /\ pc[t] = "locked"
    /\ request[t].kind = "deregister"
    /\ sensors' = remove(sensors, sensor[t].name)
    /\ status' = [status EXCEPT ![t] =
                    IF sensor[t].name \in DOMAIN sensors THEN OK ELSE NOT_FOUND]
    /\ write_lock' = "free"
    /\ pc' = [pc EXCEPT ![t] = "done"]
    /\ UNCHANGED <<challenge_lock, user_challenges, issued, request, sensor>>

\* The handler returns its status and the task ends.
Respond(t) ==
    /\ pc[t] = "done"
    /\ pc' = [pc EXCEPT ![t] = "idle"]
    /\ request' = [request EXCEPT ![t] = NoRequest]
    /\ sensor' = [sensor EXCEPT ![t] = NoSensor]
    /\ status' = [status EXCEPT ![t] = 0]
    /\ UNCHANGED <<challenge_lock, sensors, user_challenges, issued, write_lock>>

\* Requests as the server's tests build them: every header well formed,
\* both signatures made with the user's own key, the body in the clear.
ClientRequests ==
    { r \in Requests :
        /\ r.user.st = "text" /\ r.user.val = "A"
        /\ r.key.st = "text"
        /\ r.challenge.st = "b64" /\ r.challenge.val.signer = authorized_users["A"]
        /\ r.signature.st = "b64" /\ r.signature.val.signer = authorized_users["A"] }

\* Two handler tasks side by side, serving such requests.
Next ==
    /\ \/ \E u \in UserNames : challenge(u)
       \/ \E t \in Tasks : Receive(t, ClientRequests)
       \/ \E t \in Tasks : AcquireChallengeRead(t)
       \/ \E t \in Tasks : Authenticate(t)
       \/ \E t \in Tasks : AcquireWrite(t)
       \/ \E t \in Tasks : RegisterCheck(t)
       \/ \E t \in Tasks : RegisterInsert(t)
       \/ \E t \in Tasks : DeregisterRemove(t)
       \/ \E t \in Tasks : Respond(t)
    /\ UNCHANGED <<returned, tcpVars, acked, sensorVars, otherVars>>

Spec == Init /\ [][Next]_vars

\* Bodies that deserialize to a Sensor: the example sensor's, and bodies
\* with an empty name, with more fields than field types, with interval 0.
ParseableBodies ==
    { Body("s1", 1, TRUE),
      JsonBody("", 1, EXAMPLE_FIELDS, EXAMPLE_TYPES, EXAMPLE_INTERVAL, TRUE),
      JsonBody("s1", 1, EXAMPLE_FIELDS, <<>>, EXAMPLE_INTERVAL, TRUE),
      JsonBody("s1", 1, EXAMPLE_FIELDS, EXAMPLE_TYPES, 0, TRUE) }

\* Requests of user A for those bodies, built as the tests build them.
ParseableRequests ==
    { Request(kind, Header("text", "A"), Header("text", "junk"),
              Header("b64", Sign(authorized_users["A"], ChallengeMsg(c))),
              Header("b64", Sign(authorized_users["A"], BodyMsg(b))), b) :
        kind \in Kinds, c \in Challenges, b \in ParseableBodies }

\* One handler task serving requests with any parseable body.
NextParse ==
    /\ \/ \E u \in UserNames : challenge(u)
       \/ Receive("t1", ParseableRequests)
       \/ AcquireChallengeRead("t1")
       \/ Authenticate("t1")
       \/ AcquireWrite("t1")
       \/ RegisterCheck("t1")
       \/ RegisterInsert("t1")
       \/ DeregisterRemove("t1")
       \/ Respond("t1")
    /\ UNCHANGED <<returned, tcpVars, acked, sensorVars, otherVars>>

SpecParse == Init /\ [][NextParse]_vars

\* One handler task serving every request shape.
NextAuth ==
    /\ \/ \E u \in UserNames : challenge(u)
       \/ Receive("t1", Requests)
       \/ AcquireChallengeRead("t1")
       \/ Authenticate("t1")
       \/ AcquireWrite("t1")
       \/ RegisterCheck("t1")
       \/ RegisterInsert("t1")
       \/ DeregisterRemove("t1")
       \/ Respond("t1")
    /\ UNCHANGED <<returned, tcpVars, acked, sensorVars, otherVars>>

SpecAuth == Init /\ [][NextAuth]_vars

\* Challenge handlers side by side, each storing its challenge and then
\* returning it, next to one register/deregister handler task.
NextChallenge ==
    \/ (\E u \in UserNames : challenge(u)) /\ UNCHANGED <<returned, tcpVars, acked, sensorVars, otherVars>>
    \/ \E c \in Challenges : challenge_return(c)
    \/ /\ \/ Receive("t1", ClientRequests)
          \/ AcquireChallengeRead("t1")
          \/ Authenticate("t1")
          \/ AcquireWrite("t1")
          \/ RegisterCheck("t1")
          \/ RegisterInsert("t1")
          \/ DeregisterRemove("t1")
          \/ Respond("t1")
       /\ UNCHANGED <<returned, tcpVars, acked, sensorVars, otherVars>>

SpecChallenge == Init /\ [][NextChallenge]_vars

\* ------------------------------------------------------------ data plane

\* Length of garbage put in front of the frames of a stream.
MaxGarbage == 2

GT == 62             \* b'>'
LT == 60             \* b'<'
COUNTER_SIZE == 5    \* counter: [u8; 5]
IV_SIZE == 8         \* iv: [u8; 8]
TAG_SIZE == 4        \* Ccm<Aes128, U4, U13>: a four-byte tag

\* A byte of the stream.  A byte with a known value is Lit(v); a byte of an
\* AES-CCM output is known by what it is a byte of: byte i of the
\* encryption of `text` under key k and nonce n.  Its value is none of the
\* values the decoder looks for.
Lit(v) == [v |-> v, key |-> 0, nonce |-> <<>>, text |-> <<>>, i |-> 0]
CtByte(k, n, text, i) == [v |-> -1, key |-> k, nonce |-> n, text |-> text, i |-> i]

Lits(vs) == [j \in 1 .. Len(vs) |-> Lit(vs[j])]

\* cipher.encrypt(nonce, text): the ciphertext followed by the tag.
encrypt(k, n, text) ==
    [j \in 1 .. Len(text) + TAG_SIZE |-> CtByte(k, n, text, j)]

\* cipher.decrypt(nonce, packet): Ok(text) when the packet is the
\* encryption of some text under this key and nonce, Err otherwise.
decrypt(k, n, packet) ==
    IF /\ Len(packet) >= TAG_SIZE
       /\ Len(packet) = Len(packet[1].text) + TAG_SIZE
       /\ \A j \in 1 .. Len(packet) : packet[j] = CtByte(k, n, packet[1].text, j)
    THEN [ok |-> TRUE, bytes |-> packet[1].text]
    ELSE [ok |-> FALSE, bytes |-> <<>>]

\* The iv of the key material k of a sensor record.
Iv(k) == [j \in 1 .. IV_SIZE |-> k]

\* A nonce with the iv in front of the counter bytes.
get_nonce_IvFirst(s, ctr) == Iv(s.key) \o [j \in 1 .. Len(ctr) |-> ctr[j].v]

\* CcmData::get_nonce(counter): the counter bytes followed by the iv.
get_nonce(s, ctr) == [j \in 1 .. Len(ctr) |-> ctr[j].v] \o Iv(s.key)

\* The n low bytes of c, lowest first.
RECURSIVE le_bytes(_, _)
le_bytes(c, n) == IF n = 0 THEN <<>> ELSE <<c % 256>> \o le_bytes(c \div 256, n - 1)

\* counter.to_le_bytes()[..5]
to_le_bytes(c) == le_bytes(c, COUNTER_SIZE)

\* The client's CcmData::generate_nonce.
generate_nonce(c, iv) == to_le_bytes(c) \o iv

\* The characters of the names of the model.
Chr(v) ==
    CASE v = 115 -> "s"
      [] v = 49  -> "1"
      [] v = 50  -> "2"
      [] v = GT  -> ">"
      [] v = LT  -> "<"
      [] OTHER   -> "?"

RECURSIVE Str(_)
Str(bytes) == IF bytes = <<>> THEN "" ELSE Chr(Head(bytes).v) \o Str(Tail(bytes))

\* String::from_utf8(bytes): the bytes below 128 are the text they spell; a
\* byte such as 0xFF makes the conversion fail.
from_utf8(bytes) ==
    IF \A j \in 1 .. Len(bytes) : bytes[j].v >= 0 /\ bytes[j].v < 128
    THEN [ok |-> TRUE, name |-> Str(bytes)]
    ELSE [ok |-> FALSE, name |-> ""]

\* The index of the first byte of value d in buf (0: none).
Find(buf, d) ==
    LET at == {j \in 1 .. Len(buf) : buf[j].v = d}
    IN  IF at = {} THEN 0 ELSE CHOOSE j \in at : \A m \in at : j <= m

\* reader.read_until(d, &mut buf): the bytes up to and including the first
\* d, or all the bytes left when the stream ends without one.
read_until(buf, d) ==
    LET n == IF Find(buf, d) = 0 THEN Len(buf) ELSE Find(buf, d)
    IN  [len |-> n, buf |-> SubSeq(buf, 1, n), rest |-> SubSeq(buf, n + 1, Len(buf))]

\* start.pop()
pop(buf) == SubSeq(buf, 1, Len(buf) - 1)

\* ------------------------------------------------------- what a peer sends

\* The sensor names on the wire.
S1 == <<115, 49>>
S2 == <<115, 50>>
NotUtf8 == <<255>>

TextA == <<97>>
TextB == <<98>>

\* A frame is described by its name bytes, the key material and counter its
\* sender used, its plaintext, and whether its tag arrives intact.
FrameDesc(nm, k, c, text, mic) ==
    [name |-> nm, key |-> k, counter |-> c, text |-> text, mic |-> mic]

\* The packet of a frame: encrypted as the client does it, the last tag
\* byte damaged when mic is false.
Packet(d) ==
    LET whole == encrypt(d.key, generate_nonce(d.counter, Iv(d.key)), d.text)
    IN  IF d.mic THEN whole
        ELSE [j \in 1 .. Len(whole) |-> IF j = Len(whole) THEN Lit(0) ELSE whole[j]]

\* The bytes of a frame as the client writes them: '>', name, '<', five
\* counter bytes, the length byte, the packet.
ClientFrame(d) ==
    <<Lit(GT)>> \o Lits(d.name) \o <<Lit(LT)>> \o Lits(to_le_bytes(d.counter))
        \o <<Lit(Len(Packet(d)))>> \o Packet(d)

GoodA   == FrameDesc(S1, 1, 0, TextA, TRUE)
GoodB   == FrameDesc(S1, 1, 1, TextB, TRUE)
Damaged == FrameDesc(S1, 1, 0, TextA, FALSE)
BadName == FrameDesc(NotUtf8, 1, 0, TextA, TRUE)
Unknown == FrameDesc(S2, 1, 0, TextA, TRUE)
OtherKey == FrameDesc(S1, 2, 0, TextA, TRUE)

FrameChoices == {GoodA, GoodB, Damaged, BadName, Unknown, OtherKey}

\* Up to two frames, one after the other.
FrameSeqs ==
    {<<>>} \cup {<<f>> : f \in FrameChoices}
           \cup {<<f, g>> : f \in FrameChoices, g \in FrameChoices}

GarbageBytes == {GT, LT, 115, 255}

Garbage == UNION {[1 .. n -> GarbageBytes] : n \in 0 .. MaxGarbage}

RECURSIVE Frames(_)
Frames(fs) == IF fs = <<>> THEN <<>> ELSE ClientFrame(Head(fs)) \o Frames(Tail(fs))

\* The byte stream of an input: the garbage, then the frames, without the
\* last `cut` bytes, which the peer did not send before it closed.
StreamOf(inp) ==
    LET whole == Lits(inp.garbage) \o Frames(inp.frames)
    IN  SubSeq(whole, 1, Len(whole) - inp.cut)

\* What a peer may send to the decoder alone.
DecodeInputs ==
    {[garbage |-> g, frames |-> fs, cut |-> 0] : g \in Garbage, fs \in FrameSeqs}

\* What a peer sends next to a working control plane.
TcpInputs ==
    {[garbage |-> <<>>, frames |-> fs, cut |-> 0] :
        fs \in {<<GoodA, GoodB>>, <<Damaged, GoodB>>, <<GoodA, Unknown>>}}

\* serve: a connection is accepted and its task starts at the top of its
\* loop; the peer sends one of `inputs` and closes.
Accept(inputs) ==
    /\ \E inp \in inputs : sent = inp /\ stream = StreamOf(inp)
    /\ conn = "seek_open"
    /\ log = <<>>
    /\ close_event = "none"
    /\ read_lock = {}
    /\ other = "none"
    /\ LoopTop

\* --------------------------------------------------- the connection task

\* The task goes round its loop: the locals are fresh, and a guard of the
\* round that ends is dropped.
Continue ==
    /\ conn' = "seek_open"
    /\ close_event' = close_event
    /\ read_lock' = read_lock \ {"c1"}
    /\ sensor_name' = ""
    /\ counter' = <<>>
    /\ encrypted_packet_size' = 0
    /\ encrypted_packet' = <<>>
    /\ cipher' = 0
    /\ nonce' = <<>>

\* The task returns: the connection is dropped, and so is a guard in scope.
Return(lvl) ==
    /\ conn' = "closed"
    /\ close_event' = lvl
    /\ read_lock' = read_lock \ {"c1"}
    /\ UNCHANGED <<sensor_name, counter, encrypted_packet_size, encrypted_packet,
                   cipher, nonce>>

\* The decoder dropping the connection when bytes come before the '>'.
SeekOpen_FatalGarbage ==
    /\ conn = "seek_open"
    /\ IF stream = <<>> \/ read_until(stream, GT).len > 1
       THEN Return("WARN") /\ UNCHANGED stream
       ELSE /\ stream' = read_until(stream, GT).rest
            /\ conn' = "read_name"
            /\ close_event' = close_event
            /\ read_lock' = read_lock
            /\ UNCHANGED <<sensor_name, counter, encrypted_packet_size,
                           encrypted_packet, cipher, nonce>>
    /\ UNCHANGED <<ctlVars, sensorVars, otherVars, returned, acked, sent, log>>

\* read_until(b'>'): skip to the start of a frame; end of stream ends the
\* task.
SeekOpen ==
    /\ conn = "seek_open"
    /\ IF stream = <<>>
       THEN Return("INFO") /\ UNCHANGED stream
       ELSE /\ stream' = read_until(stream, GT).rest
            /\ conn' = "read_name"
            /\ close_event' = close_event
            /\ read_lock' = read_lock
            /\ UNCHANGED <<sensor_name, counter, encrypted_packet_size,
                           encrypted_packet, cipher, nonce>>
    /\ UNCHANGED <<ctlVars, sensorVars, otherVars, returned, acked, sent, log>>

\* The decoder dropping the connection on a name that is not UTF-8.
ReadName_Strict ==
    /\ conn = "read_name"
    /\ IF stream = <<>>
       THEN Return("INFO") /\ UNCHANGED stream
       ELSE LET r == read_until(stream, LT)
                name == from_utf8(pop(r.buf))
            IN  /\ stream' = r.rest
                /\ IF ~name.ok
                   THEN Return("WARN")
                   ELSE /\ sensor_name' = name.name
                        /\ conn' = "read_counter"
                        /\ close_event' = close_event
                        /\ read_lock' = read_lock
                        /\ UNCHANGED <<counter, encrypted_packet_size,
                                       encrypted_packet, cipher, nonce>>
    /\ UNCHANGED <<ctlVars, sensorVars, otherVars, returned, acked, sent, log>>

\* read_until(b'<'), then decode the name: a name that is not UTF-8 sends
\* the task back to the top of its loop.
ReadName ==
    /\ conn = "read_name"
    /\ IF stream = <<>>
       THEN Return("INFO") /\ UNCHANGED stream
       ELSE LET r == read_until(stream, LT)
                name == from_utf8(pop(r.buf))
            IN  /\ stream' = r.rest
                /\ IF ~name.ok
                   THEN Continue
                   ELSE /\ sensor_name' = name.name
                        /\ conn' = "read_counter"
                        /\ close_event' = close_event
                        /\ read_lock' = read_lock
                        /\ UNCHANGED <<counter, encrypted_packet_size,
                                       encrypted_packet, cipher, nonce>>
    /\ UNCHANGED <<ctlVars, sensorVars, otherVars, returned, acked, sent, log>>

\* The decoder taking the end of the stream inside the counter for a
\* clean close.
ReadCounter_QuietEof ==
    /\ conn = "read_counter"
    /\ IF Len(stream) < COUNTER_SIZE
       THEN /\ stream' = <<>>
            /\ Return("INFO")
       ELSE /\ counter' = SubSeq(stream, 1, COUNTER_SIZE)
            /\ stream' = SubSeq(stream, COUNTER_SIZE + 1, Len(stream))
            /\ conn' = "read_size"
            /\ close_event' = close_event
            /\ read_lock' = read_lock
            /\ UNCHANGED <<sensor_name, encrypted_packet_size, encrypted_packet,
                           cipher, nonce>>
    /\ UNCHANGED <<ctlVars, sensorVars, otherVars, returned, acked, sent, log>>

\* Five read_u8: the counter; end of stream ends the task.
ReadCounter ==
    /\ conn = "read_counter"
    /\ IF Len(stream) < COUNTER_SIZE
       THEN /\ stream' = <<>>
            /\ Return("WARN")
       ELSE /\ counter' = SubSeq(stream, 1, COUNTER_SIZE)
            /\ stream' = SubSeq(stream, COUNTER_SIZE + 1, Len(stream))
            /\ conn' = "read_size"
            /\ close_event' = close_event
            /\ read_lock' = read_lock
            /\ UNCHANGED <<sensor_name, encrypted_packet_size, encrypted_packet,
                           cipher, nonce>>
    /\ UNCHANGED <<ctlVars, sensorVars, otherVars, returned, acked, sent, log>>

\* The values a byte of ciphertext may turn out to have when it is read as
\* a number: none, a few, or more than any stream of the model holds.
CipherValues == {0, TAG_SIZE + 1, 255}

\* The values of a byte read as a number.
ByteValues(b) == IF b.v >= 0 THEN {b.v} ELSE CipherValues

\* read_u8: the packet size.
ReadSize ==
    /\ conn = "read_size"
    /\ IF stream = <<>>
       THEN Return("WARN") /\ UNCHANGED stream
       ELSE /\ \E size \in ByteValues(Head(stream)) : encrypted_packet_size' = size
            /\ stream' = Tail(stream)
            /\ conn' = "read_packet"
            /\ close_event' = close_event
            /\ read_lock' = read_lock
            /\ UNCHANGED <<sensor_name, counter, encrypted_packet, cipher, nonce>>
    /\ UNCHANGED <<ctlVars, sensorVars, otherVars, returned, acked, sent, log>>

\* The decoder ending the packet at a '>' it meets inside it and taking
\* that byte for the start of the next frame.
ReadPacket_StopAtOpen ==
    /\ conn = "read_packet"
    /\ IF Len(stream) < encrypted_packet_size
       THEN /\ stream' = <<>>
            /\ Return("WARN")
       ELSE LET at == Find(SubSeq(stream, 1, encrypted_packet_size), GT)
                n == IF at = 0 THEN encrypted_packet_size ELSE at - 1
            IN  /\ encrypted_packet' = SubSeq(stream, 1, n)
                /\ stream' = SubSeq(stream, n + 1, Len(stream))
                /\ conn' = "dispatch"
                /\ close_event' = close_event
                /\ read_lock' = read_lock
                /\ UNCHANGED <<sensor_name, counter, encrypted_packet_size, cipher, nonce>>
    /\ UNCHANGED <<ctlVars, sensorVars, otherVars, returned, acked, sent, log>>

\* read_exact: the packet.
ReadPacket ==
    /\ conn = "read_packet"
    /\ IF Len(stream) < encrypted_packet_size
       THEN /\ stream' = <<>>
            /\ Return("WARN")
       ELSE /\ encrypted_packet' = SubSeq(stream, 1, encrypted_packet_size)
            /\ stream' = SubSeq(stream, encrypted_packet_size + 1, Len(stream))
            /\ conn' = "dispatch"
            /\ close_event' = close_event
            /\ read_lock' = read_lock
            /\ UNCHANGED <<sensor_name, counter, encrypted_packet_size, cipher, nonce>>
    /\ UNCHANGED <<ctlVars, sensorVars, otherVars, returned, acked, sent, log>>

\* sensors.read().await: the task with a whole frame in hand takes the
\* registry's read lock.
AcquireRead ==
    /\ conn = "dispatch"
    /\ "c1" \notin read_lock
    /\ ReadLockFree
    /\ read_lock' = read_lock \cup {"c1"}
    /\ UNCHANGED <<ctlVars, sensorVars, otherVars, returned, acked, sent, log, stream, conn,
                   close_event, sensor_name, counter, encrypted_packet_size,
                   encrypted_packet, cipher, nonce>>

\* The lookup keeping the read guard until the round ends.
Dispatch_KeepGuard ==
    /\ conn = "dispatch"
    /\ "c1" \in read_lock
    /\ IF sensor_name \notin DOMAIN sensors
       THEN Return("WARN")
       ELSE /\ nonce' = get_nonce(sensors[sensor_name], counter)
            /\ cipher' = sensors[sensor_name].key
            /\ conn' = "decrypt"
            /\ close_event' = close_event
            /\ read_lock' = read_lock
            /\ UNCHANGED <<sensor_name, counter, encrypted_packet_size, encrypted_packet>>
    /\ UNCHANGED <<ctlVars, sensorVars, otherVars, returned, acked, sent, log, stream>>

\* The decoder skipping a frame of an unknown sensor instead of returning.
Dispatch_SkipUnknown ==
    /\ conn = "dispatch"
    /\ "c1" \in read_lock
    /\ IF sensor_name \notin DOMAIN sensors
       THEN Continue
       ELSE /\ nonce' = get_nonce(sensors[sensor_name], counter)
            /\ cipher' = sensors[sensor_name].key
            /\ conn' = "decrypt"
            /\ close_event' = close_event
            /\ read_lock' = read_lock \ {"c1"}
            /\ UNCHANGED <<sensor_name, counter, encrypted_packet_size, encrypted_packet>>
    /\ UNCHANGED <<ctlVars, sensorVars, otherVars, returned, acked, sent, log, stream>>

\* The read-lock scope: look the sensor up; unknown -> return; known ->
\* copy its key and build the nonce; the guard is dropped either way.
Dispatch ==
    /\ conn = "dispatch"
    /\ "c1" \in read_lock
    /\ IF sensor_name \notin DOMAIN sensors
       THEN Return("WARN")
       ELSE /\ nonce' = get_nonce(sensors[sensor_name], counter)
            /\ cipher' = sensors[sensor_name].key
            /\ conn' = "decrypt"
            /\ close_event' = close_event
            /\ read_lock' = read_lock \ {"c1"}
            /\ UNCHANGED <<sensor_name, counter, encrypted_packet_size, encrypted_packet>>
    /\ UNCHANGED <<ctlVars, sensorVars, otherVars, returned, acked, sent, log, stream>>

\* The decoder dropping the connection when a packet fails to decrypt.
Decrypt_ReturnOnError ==
    /\ conn = "decrypt"
    /\ LET decrypted_packet == decrypt(cipher, nonce, encrypted_packet) IN
        IF decrypted_packet.ok
        THEN log' = Append(log, decrypted_packet.bytes) /\ Continue
        ELSE log' = log /\ Return("WARN")
    /\ UNCHANGED <<ctlVars, sensorVars, otherVars, returned, acked, sent, stream>>

\* The decoder putting each plaintext in front of the ones logged before.
Decrypt_LogFirst ==
    /\ conn = "decrypt"
    /\ LET decrypted_packet == decrypt(cipher, nonce, encrypted_packet) IN
        log' = IF decrypted_packet.ok
               THEN <<decrypted_packet.bytes>> \o log
               ELSE log
    /\ Continue
    /\ UNCHANGED <<ctlVars, sensorVars, otherVars, returned, acked, sent, stream>>

\* cipher.decrypt: log the plaintext, or a warning, and go round the loop.
\* The plaintext is logged as String::from_utf8(bytes).unwrap(): bytes that
\* are not UTF-8 make the task panic before anything is logged.
Decrypt ==
    /\ conn = "decrypt"
    /\ LET decrypted_packet == decrypt(cipher, nonce, encrypted_packet) IN
        IF decrypted_packet.ok /\ ~from_utf8(Lits(decrypted_packet.bytes)).ok
        THEN log' = log /\ Return("PANIC")
        ELSE /\ log' = IF decrypted_packet.ok
                       THEN Append(log, decrypted_packet.bytes)
                       ELSE log
             /\ Continue
    /\ UNCHANGED <<ctlVars, sensorVars, otherVars, returned, acked, sent, stream>>

\* The connection task alone, the registry holding sensor s1.
InitDecode ==
    /\ sensors = insert(EmptyMap, "s1", Sensor("s1", 1))
    /\ user_challenges = insert(EmptyMap, "A", 1)
    /\ issued = <<"A">>
    /\ TasksIdle
    /\ Accept(DecodeInputs)
    /\ Boot

NextDecode ==
    \/ SeekOpen
    \/ ReadName
    \/ ReadCounter
    \/ ReadSize
    \/ ReadPacket
    \/ AcquireRead
    \/ Dispatch
    \/ Decrypt

SpecDecode == InitDecode /\ [][NextDecode]_vars

\* A frame of sensor s1, encrypted as the client does it, whose plaintext is
\* the byte 0xFF.
Binary == FrameDesc(S1, 1, 0, NotUtf8, TRUE)

\* What a peer sends that holds the key of s1: one or two frames, their
\* plaintexts text or not, with or without a byte in front.
PayloadInputs ==
    {[garbage |-> g, frames |-> fs, cut |-> 0] :
        g \in {<<>>, <<115>>},
        fs \in {<<f>> : f \in {GoodA, GoodB, Binary}}
                 \cup {<<f, h>> : f \in {GoodA, Binary}, h \in {GoodB, Binary}}}

\* The connection task alone on such a stream.
InitPayload ==
    /\ sensors = insert(EmptyMap, "s1", Sensor("s1", 1))
    /\ user_challenges = EmptyMap
    /\ issued = <<>>
    /\ TasksIdle
    /\ Accept(PayloadInputs)
    /\ Boot

SpecPayload == InitPayload /\ [][NextDecode]_vars

\* What a peer sends that closes early: one frame, with or without a byte
\* in front of it, cut off at any point.
EofInputs ==
    UNION { {[garbage |-> g, frames |-> <<f>>, cut |-> c] :
                g \in {<<>>, <<115>>}, c \in 0 .. Len(ClientFrame(f))} :
            f \in {GoodA, GoodB} }

\* The connection task alone on a stream that may end inside a frame.
InitEof ==
    /\ sensors = insert(EmptyMap, "s1", Sensor("s1", 1))
    /\ user_challenges = EmptyMap
    /\ issued = <<>>
    /\ TasksIdle
    /\ Accept(EofInputs)
    /\ Boot

SpecEof == InitEof /\ [][NextDecode]_vars

\* A frame written byte by byte: '>', the name, '<', the counter bytes, the
\* length byte, the body.
RawFrame(nm, ctr, size, body) ==
    <<GT>> \o nm \o <<LT>> \o ctr \o <<size>> \o body

\* n bytes, '>' and '<' in turn.
Marks(n) == [j \in 1 .. n |-> IF j % 2 = 1 THEN GT ELSE LT]

\* Bodies with the bytes '>' and '<' in them; the lengths of the two long
\* ones are the values of '<' and of '>'.
RawBodies ==
    { <<0, 0, 0, 0>>, Marks(TAG_SIZE), <<0, GT>> \o S1 \o <<LT, 0>>,
      Marks(LT), Marks(GT) }

\* What a peer sends that writes its first frame by hand for sensor s1, the
\* length byte telling the length of the body: the bytes of that frame
\* (kept in `garbage`), then nothing or a frame of the client.  The counter
\* fields come with and without the bytes '>' and '<' in them.
RawInputs ==
    {[garbage |-> RawFrame(S1, c, Len(b), b), frames |-> fs, cut |-> 0] :
        c \in {<<0, 0, 0, 0, 0>>, <<GT, LT, GT, LT, GT>>, <<LT, 0, GT, 0, LT>>},
        b \in RawBodies, fs \in {<<>>, <<GoodB>>}}

\* The connection task alone on such a stream.
InitRaw ==
    /\ sensors = insert(EmptyMap, "s1", Sensor("s1", 1))
    /\ user_challenges = EmptyMap
    /\ issued = <<>>
    /\ TasksIdle
    /\ Accept(RawInputs)
    /\ Boot

SpecRaw == InitRaw /\ [][NextDecode]_vars

\* The requests of that kind for the example sensor.
TcpRequests ==
    {r \in ClientRequests : r.body = Body("s1", 1, TRUE)}

\* What the last 200 returned for a sensor name says, until the registry
\* entry of that name changes again.
Track ==
    acked' = [n \in DOMAIN acked |->
                IF (n \in DOMAIN sensors') # (n \in DOMAIN sensors)
                THEN "none"
                ELSE IF \E t \in Tasks :
                            /\ pc[t] = "done" /\ pc'[t] = "idle"
                            /\ status[t] = OK /\ sensor[t].name = n
                     THEN (CHOOSE k \in Kinds : \E t \in Tasks :
                            /\ pc[t] = "done" /\ pc'[t] = "idle"
                            /\ status[t] = OK /\ sensor[t].name = n
                            /\ request[t].kind = k)
                     ELSE acked[n]]

InitTcp ==
    /\ sensors = EmptyMap
    /\ user_challenges = EmptyMap
    /\ issued = <<>>
    /\ TasksIdle
    /\ Accept(TcpInputs)
    /\ Boot

\* One data connection next to one control-plane handler task.
NextTcp ==
    \/ (\E u \in UserNames : challenge(u)) /\ UNCHANGED <<returned, tcpVars, acked, sensorVars, otherVars>>
    \/ /\ \/ Receive("t1", TcpRequests)
          \/ AcquireChallengeRead("t1")
          \/ Authenticate("t1")
          \/ AcquireWrite("t1")
          \/ RegisterCheck("t1")
          \/ RegisterInsert("t1")
          \/ DeregisterRemove("t1")
          \/ Respond("t1")
       /\ Track
       /\ UNCHANGED <<returned, tcpVars, sensorVars, otherVars>>
    \/ SeekOpen
    \/ ReadName
    \/ ReadCounter
    \/ ReadSize
    \/ ReadPacket
    \/ AcquireRead
    \/ Dispatch
    \/ Decrypt

SpecTcp == InitTcp /\ [][NextTcp]_vars

\* ---------------------------------------------------- the sensor firmware

\* The firmware is followed until its frame counter passes MaxCounter.
MaxCounter == 11

\* The frames the firmware writes while the connection is up.
MaxFrames == 2

MIC_SIZE == 4        \* const MIC_SIZE: u8 = 4
HEADER_SIZE == 3     \* const HEADER_SIZE: u8 = 3
KEY_INTERVAL == 10   \* const KEY_INTERVAL: u32 = 10
U32_SIZE == 4        \* let mut counter: u32

\* The long-term keys of the model are the numbers below KeySpace.
KeySpace == 16

\* Sha256 of the seed, result[0..16].  The hash is free of collisions:
\* seeds that differ give keys that differ, and none of them is a
\* long-term key.
sha256_16(sd) == KeySpace * (sd.interval + 1) + sd.rest

\* update_key: the interval's bytes go into the head of the seed, the key
\* becomes the hash of the seed.
update_key(ccm, interval_counter, sd) ==
    LET seeded == [sd EXCEPT !.interval = interval_counter]
    IN  [ccm_data |-> [ccm EXCEPT !.key = sha256_16(seeded)], seed |-> seeded]

\* encrypt_data.  The buffer it returns starts as HEADER_SIZE + data +
\* MIC_SIZE zero bytes.  When encrypt_packet succeeds (ok) the buffer holds
\* a header whose second byte is the length of what follows, then the data
\* encrypted under the key and the packet counter of ccm, then the MIC, and
\* both counters go up by one.  When it fails the buffer and the counters
\* stay as they were.
encrypt_data(ctr, data, ccm, ok) ==
    LET n == generate_nonce(ccm.packet_counter, Iv(ccm.iv))
        header == [j \in 1 .. HEADER_SIZE |->
                      Lit(IF j = 2 THEN Len(data) + MIC_SIZE ELSE 0)]
        zeros == [j \in 1 .. HEADER_SIZE + Len(data) + MIC_SIZE |-> Lit(0)]
    IN  IF ok
        THEN [counter |-> ctr + 1,
              ccm_data |-> [ccm EXCEPT !.packet_counter = @ + 1],
              ciphertext |-> header \o encrypt(ccm.key, n, data)]
        ELSE [counter |-> ctr, ccm_data |-> ccm, ciphertext |-> zeros]

\* What the loop writes to the serial port: ">example_sensor<", the four
\* bytes of (counter - 1), encrypted_data[1..2], encrypted_data[3..].
SerialFrame(ctr, encrypted_data) ==
    <<Lit(GT)>> \o Lits(S1) \o <<Lit(LT)>> \o Lits(le_bytes(ctr - 1, U32_SIZE))
        \o SubSeq(encrypted_data, 2, 2)
        \o SubSeq(encrypted_data, 4, Len(encrypted_data))

\* One round of the firmware's loop with new accelerometer data `data`,
\* the encryption succeeding or not (ok): rotate the key when the interval
\* has changed, call encrypt_data, write the frame.  The frame reaches the
\* server when the connection is up; `sent` keeps the key the firmware
\* held, the counter field it wrote and whether the frame was encrypted.
SensorCycle(data, ok) ==
    LET interval_counter == sensor_counter \div KEY_INTERVAL
        rotated == IF interval_counter # prev_interval
                   THEN update_key(ccm_data, interval_counter, seed)
                   ELSE [ccm_data |-> ccm_data, seed |-> seed]
        encrypted == encrypt_data(sensor_counter, data, rotated.ccm_data, ok)
    IN  /\ prev_interval' = interval_counter
        /\ seed' = rotated.seed
        /\ ccm_data' = encrypted.ccm_data
        /\ sensor_counter' = encrypted.counter
        /\ IF conn = "accepted"
           THEN /\ stream' = stream \o SerialFrame(encrypted.counter,
                                                    encrypted.ciphertext)
                /\ sent' = [sent EXCEPT !.frames =
                              Append(@, FrameDesc(S1, rotated.ccm_data.key,
                                                  encrypted.counter - 1, data, ok))]
           ELSE UNCHANGED <<stream, sent>>
        /\ UNCHANGED <<ctlVars, otherVars, returned, acked, conn, log, close_event,
                       read_lock, sensor_name, counter, encrypted_packet_size,
                       encrypted_packet, cipher, nonce>>

\* The firmware's loop with a new sample.  It is followed while no
\* connection has ended and until the counter passes MaxCounter.
SensorLoop ==
    /\ conn \in {"listening", "accepted"}
    /\ sensor_counter <= MaxCounter
    /\ Len(sent.frames) < MaxFrames
    /\ \E data \in {TextA, TextB}, ok \in BOOLEAN : SensorCycle(data, ok)

\* The firmware's loop without a new sample, or with the accelerometer
\* failing: nothing is encrypted and nothing is written.
SensorSkip ==
    /\ conn \in {"listening", "accepted"}
    /\ UNCHANGED vars

\* serve: the connection that carries the serial port's bytes is accepted.
Connect ==
    /\ conn = "listening"
    /\ conn' = "accepted"
    /\ close_event' = close_event
    /\ read_lock' = read_lock
    /\ UNCHANGED <<ctlVars, sensorVars, otherVars, returned, acked, stream, sent, log,
                   sensor_name, counter, encrypted_packet_size, encrypted_packet,
                   cipher, nonce>>

\* The peer closes: the task reads what was written up to the end.
EndOfStream ==
    /\ conn = "accepted"
    /\ conn' = "seek_open"
    /\ close_event' = close_event
    /\ read_lock' = read_lock
    /\ UNCHANGED <<ctlVars, sensorVars, otherVars, returned, acked, stream, sent, log,
                   sensor_name, counter, encrypted_packet_size, encrypted_packet,
                   cipher, nonce>>

\* The firmware next to the server, the registry holding the example
\* sensor with the firmware's key and iv.
InitSensor ==
    /\ sensors = insert(EmptyMap, "s1", Sensor("s1", 1))
    /\ user_challenges = EmptyMap
    /\ issued = <<>>
    /\ TasksIdle
    /\ stream = <<>>
    /\ sent = [garbage |-> <<>>, frames |-> <<>>, cut |-> 0]
    /\ conn = "listening"
    /\ log = <<>>
    /\ close_event = "none"
    /\ read_lock = {}
    /\ other = "none"
    /\ LoopTop
    /\ Boot

NextSensor ==
    \/ SensorLoop
    \/ SensorSkip
    \/ Connect
    \/ EndOfStream
    \/ SeekOpen
    \/ ReadName
    \/ ReadCounter
    \/ ReadSize
    \/ ReadPacket
    \/ AcquireRead
    \/ Dispatch
    \/ Decrypt

SpecSensor == InitSensor /\ [][NextSensor]_vars

\* ------------------------------------------------ the registry's read lock

\* The requests of that kind for sensor s1 with either key material.
LockRequests ==
    {r \in ClientRequests : r.body \in {Body("s1", 1, TRUE), Body("s1", 2, TRUE)}}

\* What the peer of the data connection sends next to them.
LockInputs == {[garbage |-> <<>>, frames |-> <<GoodA, GoodB>>, cut |-> 0]}

InitLock ==
    /\ sensors = EmptyMap
    /\ user_challenges = EmptyMap
    /\ issued = <<>>
    /\ TasksIdle
    /\ Accept(LockInputs)
    /\ Boot

\* One data connection next to one handler task that registers and
\* deregisters s1 under changing key material.
NextLock ==
    \/ /\ \/ \E u \in UserNames : challenge(u)
          \/ Receive("t1", LockRequests)
          \/ AcquireChallengeRead("t1")
          \/ Authenticate("t1")
          \/ AcquireWrite("t1")
          \/ RegisterCheck("t1")
          \/ RegisterInsert("t1")
          \/ DeregisterRemove("t1")
          \/ Respond("t1")
       /\ UNCHANGED <<returned, tcpVars, acked, sensorVars, otherVars>>
    \/ SeekOpen
    \/ ReadName
    \/ ReadCounter
    \/ ReadSize
    \/ ReadPacket
    \/ AcquireRead
    \/ Dispatch
    \/ Decrypt

SpecLock == InitLock /\ [][NextLock]_vars

\* ------------------------------------------------- a second connection

\* The task of a second connection is followed through the same loop by
\* its position only: its peer sends frames that name s1, and what the
\* bytes are shows in the way the task takes.

\* serve: the second connection is accepted and its task spawned.
Other_Accept ==
    /\ other = "none"
    /\ other' = "seek_open"
    /\ UNCHANGED <<ctlVars, returned, tcpVars, acked, sensorVars>>

\* The reads of the loop.
Reads == {"seek_open", "read_name", "read_counter", "read_size", "read_packet"}

\* The peer sends what the pending read waits for and the task goes on to
\* the next read, or, with a name that is not UTF-8, back to the top.
\* While the peer sends nothing the task stays where it is.
Other_Read ==
    /\ other \in Reads
    /\ \/ other' = CASE other = "seek_open"    -> "read_name"
                     [] other = "read_name"    -> "read_counter"
                     [] other = "read_counter" -> "read_size"
                     [] other = "read_size"    -> "read_packet"
                     [] other = "read_packet"  -> "dispatch"
       \/ other = "read_name" /\ other' = "seek_open"
    /\ UNCHANGED <<ctlVars, returned, tcpVars, acked, sensorVars>>

\* The peer closes: the pending read ends the task.
Other_Eof ==
    /\ other \in Reads
    /\ other' = "closed"
    /\ UNCHANGED <<ctlVars, returned, tcpVars, acked, sensorVars>>

\* sensors.read().await in the second task.
Other_AcquireRead ==
    /\ other = "dispatch"
    /\ "c2" \notin read_lock
    /\ ReadLockFree
    /\ read_lock' = read_lock \cup {"c2"}
    /\ UNCHANGED <<ctlVars, sensorVars, otherVars, returned, acked, sent, log, stream,
                   conn, close_event, sensor_name, counter, encrypted_packet_size,
                   encrypted_packet, cipher, nonce>>

\* The second task keeping its read guard when it leaves the lookup.
Other_Dispatch_KeepGuard ==
    /\ other = "dispatch"
    /\ "c2" \in read_lock
    /\ other' = IF "s1" \in DOMAIN sensors THEN "decrypt" ELSE "closed"
    /\ UNCHANGED <<ctlVars, returned, tcpVars, acked, sensorVars>>

\* The read-lock scope of the second task: lookup, copy, drop of the guard.
Other_Dispatch ==
    /\ other = "dispatch"
    /\ "c2" \in read_lock
    /\ other' = IF "s1" \in DOMAIN sensors THEN "decrypt" ELSE "closed"
    /\ read_lock' = read_lock \ {"c2"}
    /\ UNCHANGED <<ctlVars, sensorVars, returned, acked, sent, log, stream,
                   conn, close_event, sensor_name, counter, encrypted_packet_size,
                   encrypted_packet, cipher, nonce>>

\* cipher.decrypt in the second task: a packet that fails, or a plaintext
\* that is logged, sends the task round its loop; a plaintext that is not
\* UTF-8 makes String::from_utf8(bytes).unwrap() panic and the task ends.
Other_Decrypt ==
    /\ other = "decrypt"
    /\ other' \in {"seek_open", "panicked"}
    /\ UNCHANGED <<ctlVars, returned, tcpVars, acked, sensorVars>>

\* The requests for the example sensor signed over the first challenge.
StallRequests ==
    {r \in TcpRequests : r.challenge.val.msg = ChallengeMsg(1)}

\* The server with user A's challenge stored and the first connection
\* accepted.
InitStall ==
    /\ sensors = EmptyMap
    /\ user_challenges = insert(EmptyMap, "A", 1)
    /\ issued = <<"A">>
    /\ TasksIdle
    /\ Accept(LockInputs)
    /\ Boot

\* A step of a handler task that is serving a request.
ServeStep(t) ==
    \/ AcquireChallengeRead(t)
    \/ Authenticate(t)
    \/ AcquireWrite(t)
    \/ RegisterCheck(t)
    \/ RegisterInsert(t)
    \/ DeregisterRemove(t)
    \/ Respond(t)

\* One handler task, the first connection and the second connection.
NextStall ==
    \/ /\ \/ Receive("t1", StallRequests)
          \/ ServeStep("t1")
       /\ UNCHANGED <<returned, tcpVars, acked, sensorVars, otherVars>>
    \/ SeekOpen
    \/ ReadName
    \/ ReadCounter
    \/ ReadSize
    \/ ReadPacket
    \/ AcquireRead
    \/ Dispatch
    \/ Decrypt
    \/ Other_Accept
    \/ Other_Read
    \/ Other_Eof
    \/ Other_AcquireRead
    \/ Other_Dispatch
    \/ Other_Decrypt

SpecStall == InitStall /\ [][NextStall]_vars

\* The runtime runs every task that can go on (weak fairness).  A step
\* that waits for the registry's lock is strongly fair: tokio's RwLock
\* queues its waiters, so a waiter gets the lock when it is free again and
\* again.  The second connection's reads are left out: they wait for its
\* peer.
Fairness ==
    /\ SF_vars(AcquireChallengeRead("t1") /\ UNCHANGED <<returned, tcpVars, acked, sensorVars, otherVars>>)
    /\ WF_vars(Authenticate("t1") /\ UNCHANGED <<returned, tcpVars, acked, sensorVars, otherVars>>)
    /\ SF_vars(AcquireWrite("t1") /\ UNCHANGED <<returned, tcpVars, acked, sensorVars, otherVars>>)
    /\ WF_vars(RegisterCheck("t1") /\ UNCHANGED <<returned, tcpVars, acked, sensorVars, otherVars>>)
    /\ WF_vars(RegisterInsert("t1") /\ UNCHANGED <<returned, tcpVars, acked, sensorVars, otherVars>>)
    /\ WF_vars(DeregisterRemove("t1") /\ UNCHANGED <<returned, tcpVars, acked, sensorVars, otherVars>>)
    /\ WF_vars(Respond("t1") /\ UNCHANGED <<returned, tcpVars, acked, sensorVars, otherVars>>)
    /\ WF_vars(SeekOpen) /\ WF_vars(ReadName) /\ WF_vars(ReadCounter)
    /\ WF_vars(ReadSize) /\ WF_vars(ReadPacket) /\ SF_vars(AcquireRead)
    /\ WF_vars(Dispatch) /\ WF_vars(Decrypt)
    /\ WF_vars(Other_Dispatch)

SpecStallFair == SpecStall /\ Fairness

\* ------------------------------------------------------ the empty name

\* The requests for a sensor whose name is empty, and for s1.
NoNameRequests ==
    {r \in ParseableRequests : r.body.name = "" \/ r.body = Body("s1", 1, TRUE)}

\* The connection carries one frame with nothing between its '>' and its
\* '<', encrypted with the key material of those bodies.
InitNoName ==
    /\ sensors = EmptyMap
    /\ user_challenges = EmptyMap
    /\ issued = <<>>
    /\ TasksIdle
    /\ Accept({[garbage |-> <<>>,
                 frames |-> <<FrameDesc(<<>>, 1, 0, TextA, TRUE)>>,
                 cut |-> 0]})
    /\ Boot

\* One handler task serving those requests next to a connection that
\* carries the frame.
NextNoName ==
    \/ /\ \/ \E u \in UserNames : challenge(u)
          \/ Receive("t1", NoNameRequests)
          \/ AcquireChallengeRead("t1")
          \/ Authenticate("t1")
          \/ AcquireWrite("t1")
          \/ RegisterCheck("t1")
          \/ RegisterInsert("t1")
          \/ DeregisterRemove("t1")
          \/ Respond("t1")
       /\ UNCHANGED <<returned, tcpVars, acked, sensorVars, otherVars>>
    \/ SeekOpen
    \/ ReadName
    \/ ReadCounter
    \/ ReadSize
    \/ ReadPacket
    \/ AcquireRead
    \/ Dispatch
    \/ Decrypt

SpecNoName == InitNoName /\ [][NextNoName]_vars

\* ------------------------------------------- both planes, every answer

\* Requests for the example sensor with text headers and base64
\* signatures: any user name, any challenge signature, any body signature,
\* the body whole or cut short.
MixedRequests ==
    { r \in Requests :
        /\ r.user.st = "text" /\ r.key.st = "text"
        /\ r.challenge.st = "b64" /\ r.signature.st = "b64"
        /\ r.body \in {Body("s1", 1, TRUE), Body("s1", 1, FALSE)} }

\* What the peer of the data connection sends next to them.
MixedInputs == {[garbage |-> <<>>, frames |-> <<GoodA>>, cut |-> 0]}

InitMixed ==
    /\ sensors = EmptyMap
    /\ user_challenges = EmptyMap
    /\ issued = <<>>
    /\ TasksIdle
    /\ Accept(MixedInputs)
    /\ Boot

\* One data connection next to one handler task that serves requests
\* which draw every answer.
NextMixed ==
    \/ /\ \/ \E u \in UserNames : challenge(u)
          \/ Receive("t1", MixedRequests)
          \/ AcquireChallengeRead("t1")
          \/ Authenticate("t1")
          \/ AcquireWrite("t1")
          \/ RegisterCheck("t1")
          \/ RegisterInsert("t1")
          \/ DeregisterRemove("t1")
          \/ Respond("t1")
       /\ UNCHANGED <<returned, tcpVars, acked, sensorVars, otherVars>>
    \/ SeekOpen
    \/ ReadName
    \/ ReadCounter
    \/ ReadSize
    \/ ReadPacket
    \/ AcquireRead
    \/ Dispatch
    \/ Decrypt

SpecMixed == InitMixed /\ [][NextMixed]_vars

\* ------------------------------------------------------------ both locks

\* A step of the connection task.
IngestStep ==
    \/ SeekOpen
    \/ ReadName
    \/ ReadCounter
    \/ ReadSize
    \/ ReadPacket
    \/ AcquireRead
    \/ Dispatch
    \/ Decrypt

\* Challenge handlers, two register/deregister handler tasks and one
\* connection task side by side.
NextBoth ==
    \/ /\ \/ \E u \in UserNames : challenge(u)
          \/ \E t \in Tasks : Receive(t, TcpRequests)
          \/ \E t \in Tasks : ServeStep(t)
       /\ UNCHANGED <<returned, tcpVars, acked, sensorVars, otherVars>>
    \/ IngestStep

SpecBoth == InitMixed /\ [][NextBoth]_vars

\* ------------------------------------------------------- the CLI client

\* encrypt_body(body, server_pub_key): the body encrypted with AES-256-GCM
\* under a fresh key, and that key wrapped for the server.
encrypt_body(body) ==
    [key_header |-> "junk", encrypted_body |-> [body EXCEPT !.sealed = TRUE]]

\* The request sensor_action(url, body, _) sends for the user test_user (A)
\* who holds the challenge c: the user header, the signature of the
\* encrypted body, the wrapped key, the signature of the challenge, and the
\* encrypted body as the body.
sensor_action(kind, body, c) ==
    LET enc == encrypt_body(body)
        signing_key == authorized_users["A"]
    IN  Request(kind,
                Header("text", "A"),
                Header("text", enc.key_header),
                Header("b64", Sign(signing_key, ChallengeMsg(c))),
                Header("b64", Sign(signing_key, BodyMsg(enc.encrypted_body))),
                enc.encrypted_body)

\* The client runs its register or deregister action for the example
\* sensor with a challenge that was returned to it for its user.
ClientAction(t) ==
    /\ pc[t] = "idle"
    /\ \E kind \in Kinds, c \in Range(returned) :
          /\ issued[c] = "A"
          /\ request' = [request EXCEPT ![t] = sensor_action(kind, Body("s1", 1, TRUE), c)]
    /\ pc' = [pc EXCEPT ![t] = "auth"]
    /\ UNCHANGED <<challenge_lock, sensors, user_challenges, issued, write_lock,
                   sensor, status>>

\* The client next to the server: challenges are fetched, and one handler
\* task serves the client's requests and requests with the body in the
\* clear.
NextClient ==
    \/ (\E u \in UserNames : challenge(u))
            /\ UNCHANGED <<returned, tcpVars, acked, sensorVars, otherVars>>
    \/ \E c \in Challenges : challenge_return(c)
    \/ /\ \/ ClientAction("t1")
          \/ Receive("t1", TcpRequests)
          \/ ServeStep("t1")
       /\ UNCHANGED <<returned, tcpVars, acked, sensorVars, otherVars>>

SpecClient == Init /\ [][NextClient]_vars

\* ----------------------------------------------------------------- claims

\* Task t holds the registry's write lock.
InCritical(t) == pc[t] \in {"locked", "insert"}

\* C1: a register_sensor request that passed authentication and parsing is
\* answered 409 with the registry unchanged when the registry holds a
\* record under the body's name; otherwise the parsed record is inserted
\* under its name, every other entry stays, and the answer is 200.
C1_RegisterContract ==
    [][\A t \in Tasks :
        LET name == request[t].body.name
            rec  == from_slice(request[t].body).sensor
        IN  /\ (pc[t] = "locked" /\ request[t].kind = "register" /\ pc'[t] # "locked")
                => IF name \in DOMAIN sensors
                   THEN /\ pc'[t] = "done"
                        /\ status'[t] = CONFLICT
                        /\ sensors' = sensors
                   ELSE /\ pc'[t] = "insert"
                        /\ sensors' = sensors
            /\ (pc[t] = "insert" /\ pc'[t] # "insert")
                => /\ pc'[t] = "done"
                   /\ status'[t] = OK
                   /\ DOMAIN sensors' = DOMAIN sensors \cup {name}
                   /\ sensors'[name] = rec
                   /\ \A n \in DOMAIN sensors \ {name} : sensors'[n] = sensors[n]
    ]_vars

\* C1 witness: two registers of one name, the first answered 200 and the
\* second 409, with the first one's record still stored.
C1_Witness ==
    \E t1, t2 \in Tasks :
        /\ t1 # t2
        /\ pc[t1] = "done" /\ request[t1].kind = "register" /\ status[t1] = OK
        /\ pc[t2] = "done" /\ request[t2].kind = "register" /\ status[t2] = CONFLICT
        /\ sensor[t1].name = sensor[t2].name
        /\ sensor[t1] # sensor[t2]
        /\ sensor[t1].name \in DOMAIN sensors
        /\ sensors[sensor[t1].name] = sensor[t1]

\* C2: a deregister_sensor request that passed authentication and parsing
\* is answered 404 with the registry unchanged when no record is stored
\* under the body's name; otherwise exactly that record is removed, every
\* other record stays, and the answer is 200.
C2_DeregisterContract ==
    [][\A t \in Tasks :
        LET name == request[t].body.name
        IN  (pc[t] = "locked" /\ request[t].kind = "deregister" /\ pc'[t] # "locked")
                => /\ pc'[t] = "done"
                   /\ IF name \in DOMAIN sensors
                      THEN /\ status'[t] = OK
                           /\ DOMAIN sensors' = DOMAIN sensors \ {name}
                           /\ \A n \in DOMAIN sensors' : sensors'[n] = sensors[n]
                      ELSE /\ status'[t] = NOT_FOUND
                           /\ sensors' = sensors
    ]_vars

\* C2 witness: a deregister answered 200 whose name is gone while another
\* record is still stored.
C2_Witness ==
    \E t \in Tasks :
        /\ pc[t] = "done" /\ request[t].kind = "deregister" /\ status[t] = OK
        /\ sensor[t].name \notin DOMAIN sensors
        /\ DOMAIN sensors # {}

\* C3: register and deregister are atomic with respect to each other.  At
\* most one task is between acquiring and releasing the write lock; the
\* registry changes only in the step by which that task releases the lock;
\* and at the release the status and the registry are those of the
\* sequential operation applied to the registry as it stands, so an insert
\* never lands on a name that is present (the record stored is the one of
\* the request answered 200).
C3_WriteAtomicity ==
    [][/\ \A t1, t2 \in Tasks : (InCritical(t1) /\ InCritical(t2)) => t1 = t2
       /\ \A t \in Tasks : InCritical(t) => write_lock = t
       /\ (sensors' # sensors)
            => \E t \in Tasks : InCritical(t) /\ write_lock = t /\ pc'[t] = "done"
       /\ \A t \in Tasks :
            (InCritical(t) /\ pc'[t] = "done")
                => LET s == sensor[t]
                       present == s.name \in DOMAIN sensors
                   IN  IF request[t].kind = "register"
                       THEN /\ status'[t] = (IF present THEN CONFLICT ELSE OK)
                            /\ sensors' = (IF present THEN sensors
                                           ELSE insert(sensors, s.name, s))
                       ELSE /\ status'[t] = (IF present THEN OK ELSE NOT_FOUND)
                            /\ sensors' = remove(sensors, s.name)
    ]_vars

\* C3 witness: one register is about to insert under the write lock while a
\* second register of the same name waits for the lock.
C3_Witness ==
    \E t1, t2 \in Tasks :
        /\ pc[t1] = "insert" /\ request[t1].kind = "register"
        /\ pc[t2] = "acquire" /\ request[t2].kind = "register"
        /\ sensor[t1].name = sensor[t2].name
        /\ sensor[t1] # sensor[t2]

\* Task t takes the step that runs authenticate_and_parse_sensor.
AuthStep(t) == pc[t] = "auth" /\ pc'[t] # "auth"

\* That step ends the request with `code` and changes neither the registry
\* nor the challenge table.
Answered(t, code) ==
    /\ pc'[t] = "done"
    /\ status'[t] = code
    /\ sensors' = sensors
    /\ user_challenges' = user_challenges

\* The request names a user of the user table.
KnownUser(req) == req.user.st = "text" /\ req.user.val \in DOMAIN authorized_users

\* All four headers are there and are text.
WellFormedHeaders(req) ==
    \A st \in {req.user.st, req.key.st, req.challenge.st, req.signature.st} :
        st \notin {"absent", "nonutf8"}

\* The challenge header is the named user's signature over the challenge
\* stored for that user right now.
SignsStoredChallenge(req) ==
    /\ req.challenge.st = "b64"
    /\ req.user.val \in DOMAIN user_challenges
    /\ req.challenge.val =
          Sign(authorized_users[req.user.val],
               ChallengeMsg(user_challenges[req.user.val]))

\* The signature header is the named user's signature over the body.
SignsBody(req) ==
    /\ req.signature.st = "b64"
    /\ req.signature.val = Sign(authorized_users[req.user.val], BodyMsg(req.body))

C5_AsStated ==
    [][\A t \in Tasks :
        LET r == request[t] IN
        (/\ AuthStep(t)
         /\ "absent" \notin {r.user.st, r.key.st, r.challenge.st, r.signature.st}
         /\ KnownUser(r)
         /\ r.challenge.st = "b64"
         /\ r.user.val \notin DOMAIN user_challenges)
            => Answered(t, FORBIDDEN)
    ]_vars

\* C5 amended: the same with the signature and key header values being
\* text: then the answer is 403 whether or not the signature header is
\* base64 and whether or not the body parses.
C5_NoChallengeForbidden ==
    [][\A t \in Tasks :
        LET r == request[t] IN
        (/\ AuthStep(t)
         /\ WellFormedHeaders(r) /\ KnownUser(r)
         /\ r.challenge.st = "b64"
         /\ r.user.val \notin DOMAIN user_challenges)
            => Answered(t, FORBIDDEN)
    ]_vars

\* C5 witness: a 403 for a known user without a stored challenge whose
\* signature header is not base64 and whose body does not parse.
C5_Witness ==
    \E t \in Tasks :
        LET r == request[t] IN
        /\ pc[t] = "done" /\ status[t] = FORBIDDEN
        /\ WellFormedHeaders(r) /\ KnownUser(r)
        /\ r.challenge.st = "b64"
        /\ r.user.val \notin DOMAIN user_challenges
        /\ r.signature.st = "notb64"
        /\ ~r.body.complete

\* C6: a request with four text headers whose user is not in the user table
\* is answered 401 and changes neither the registry nor the challenge
\* table, whatever the other headers, the body and the challenge table
\* hold.
C6_UnknownUserUnauthorized ==
    [][\A t \in Tasks :
        LET r == request[t] IN
        (/\ AuthStep(t)
         /\ WellFormedHeaders(r)
         /\ r.user.val \notin DOMAIN authorized_users)
            => Answered(t, UNAUTHORIZED)
    ]_vars

\* C6 witness: a 401 for an unknown user whose challenge and signature
\* headers are not base64, while the challenge table holds an entry.
C6_Witness ==
    \E t \in Tasks :
        LET r == request[t] IN
        /\ pc[t] = "done" /\ status[t] = UNAUTHORIZED
        /\ WellFormedHeaders(r)
        /\ r.user.val \notin DOMAIN authorized_users
        /\ r.challenge.st = "notb64" /\ r.signature.st = "notb64"
        /\ DOMAIN user_challenges # {}

\* C7: a request that lacks one of the headers user, signature, key,
\* challenge is answered 400 and changes nothing, whatever else it holds.
C7_MissingHeaderBadRequest ==
    [][\A t \in Tasks :
        LET r == request[t] IN
        (/\ AuthStep(t)
         /\ "absent" \in {r.user.st, r.signature.st, r.key.st, r.challenge.st})
            => Answered(t, BAD_REQUEST)
    ]_vars

\* C7 witness: a 400 for a request that lacks only the key header and is
\* otherwise one the server would accept.
C7_Witness ==
    \E t \in Tasks :
        LET r == request[t] IN
        /\ pc[t] = "done" /\ status[t] = BAD_REQUEST
        /\ r.key.st = "absent"
        /\ KnownUser(r) /\ SignsStoredChallenge(r) /\ SignsBody(r)
        /\ r.body.complete

\* C8: once the challenge check has passed, a base64 signature header that
\* is not the user's signature over the raw body gives 401, whether or not
\* the body parses; and a known user gets 401 only in that case, so the
\* body signature is checked after the challenge and before the parse.
C8_BadBodySignatureUnauthorized ==
    [][\A t \in Tasks :
        LET r == request[t]
            bad == /\ WellFormedHeaders(r) /\ KnownUser(r)
                   /\ SignsStoredChallenge(r)
                   /\ r.signature.st = "b64"
                   /\ ~SignsBody(r)
        IN  /\ (AuthStep(t) /\ bad) => Answered(t, UNAUTHORIZED)
            /\ (AuthStep(t) /\ KnownUser(r) /\ status'[t] = UNAUTHORIZED) => bad
    ]_vars

\* C8 witness: a 401 for a known user with a valid challenge signature, a
\* base64 signature header that does not verify, and a body that does not
\* parse.
C8_Witness ==
    \E t \in Tasks :
        LET r == request[t] IN
        /\ pc[t] = "done" /\ status[t] = UNAUTHORIZED
        /\ WellFormedHeaders(r) /\ KnownUser(r)
        /\ SignsStoredChallenge(r)
        /\ r.signature.st = "b64" /\ ~SignsBody(r)
        /\ ~r.body.complete

\* The request names known user b while both of its signatures were made
\* with the key of another known user.
CrossUser(req) ==
    /\ KnownUser(req)
    /\ \E a \in DOMAIN authorized_users :
        /\ a # req.user.val
        /\ req.challenge.val.signer = authorized_users[a]
        /\ req.signature.val.signer = authorized_users[a]

\* C9: a request signed with user A's key that names another known user B
\* is ended by the authentication step with a status other than 200 and
\* without a change of the registry; no such request is ever on the way to
\* the registry or answered 200.
C9_NoCrossUser ==
    [][\A t \in Tasks :
        LET r == request[t] IN
        /\ (AuthStep(t) /\ CrossUser(r))
            => /\ pc'[t] = "done"
               /\ status'[t] # OK
               /\ sensors' = sensors
        /\ CrossUser(r) => /\ pc[t] \notin {"acquire", "locked", "insert"}
                           /\ status[t] # OK
    ]_vars

\* C9 witness: a rejected request naming B, who has an active challenge,
\* signed with A's key over B's stored challenge and over the body.
C9_Witness ==
    \E t \in Tasks :
        LET r == request[t] IN
        /\ pc[t] = "done" /\ status[t] # OK
        /\ CrossUser(r)
        /\ r.user.val \in DOMAIN user_challenges
        /\ \E a \in DOMAIN authorized_users :
            /\ r.challenge = Header("b64", Sign(authorized_users[a],
                                   ChallengeMsg(user_challenges[r.user.val])))
            /\ r.signature = Header("b64", Sign(authorized_users[a], BodyMsg(r.body)))
        /\ r.body.complete

\* C10: a register or deregister request that passes the user, challenge
\* and body-signature checks with a body that is not a complete sensor
\* record is answered 400 and leaves the registry unchanged, also when the
\* body names a registered sensor.
C10_MalformedBodyBadRequest ==
    [][\A t \in Tasks :
        LET r == request[t] IN
        (/\ AuthStep(t)
         /\ WellFormedHeaders(r) /\ KnownUser(r)
         /\ SignsStoredChallenge(r) /\ SignsBody(r)
         /\ ~r.body.complete)
            => Answered(t, BAD_REQUEST)
    ]_vars

\* C10 witness: a deregister answered 400 whose incomplete body names a
\* sensor that is registered, with both signatures valid.
C10_Witness ==
    \E t \in Tasks :
        LET r == request[t] IN
        /\ pc[t] = "done" /\ status[t] = BAD_REQUEST
        /\ r.kind = "deregister"
        /\ WellFormedHeaders(r) /\ KnownUser(r)
        /\ SignsStoredChallenge(r) /\ SignsBody(r)
        /\ ~r.body.complete
        /\ r.body.name \in DOMAIN sensors

\* The largest element of a non-empty set of numbers.
Max(S) == CHOOSE x \in S : \A y \in S : y <= x

\* The challenges generated for user u so far.
GeneratedFor(u) == {c \in 1 .. Len(issued) : issued[c] = u}

\* The challenges generated for u whose handler has not returned yet.
InFlight(u) == GeneratedFor(u) \ Range(returned)

\* The challenge whose response to u came last (0: no response yet).
LastReturned(u) ==
    LET rs == {i \in 1 .. Len(returned) : issued[returned[i]] = u}
    IN  IF rs = {} THEN 0 ELSE returned[Max(rs)]

\* C11 as stated: the challenge table has entries only for users of the
\* user table, and once every challenge request of a user has returned, the
\* user's entry is the value most recently returned to that user.
C11_AsStated ==
    /\ DOMAIN user_challenges \subseteq DOMAIN authorized_users
    /\ \A u \in DOMAIN user_challenges :
          InFlight(u) = {} => user_challenges[u] = LastReturned(u)

\* C11 amended: the challenge table has entries only for users of the user
\* table, an entry for exactly the known users a challenge was generated
\* for, and each entry is the value most recently stored for its user: the
\* latest challenge generated for that user, replacing the earlier ones.
\* Nothing is stored for an unknown user.
C11_ChallengeTable ==
    /\ DOMAIN user_challenges \subseteq DOMAIN authorized_users
    /\ \A u \in DOMAIN authorized_users :
          u \in DOMAIN user_challenges <=> GeneratedFor(u) # {}
    /\ \A u \in DOMAIN user_challenges :
          user_challenges[u] = Max(GeneratedFor(u))

\* C11 witness: two challenge requests of one user overlapped; the second
\* one's value is stored, replaced the first, and the first one's response
\* came last.
C11_Witness ==
    \E u \in DOMAIN user_challenges :
        /\ Cardinality(GeneratedFor(u)) = 2
        /\ InFlight(u) = {}
        /\ user_challenges[u] = Max(GeneratedFor(u))
        /\ LastReturned(u) # user_challenges[u]

\* Task t has passed authentication with the request it holds.
Authenticated(t) ==
    \/ pc[t] \in {"acquire", "locked", "insert"}
    \/ pc[t] = "done" /\ status[t] \in {OK, CONFLICT, NOT_FOUND}

\* C12: no step of a register or deregister handler changes the challenge
\* table, and a request whose challenge header is the user's signature over
\* the challenge stored right now passes the challenge step (it is not
\* answered 403), however many requests authenticated with that signature
\* before.
C12_VerifyKeepsChallenge ==
    [][/\ (\E t \in Tasks : pc'[t] # pc[t]) => user_challenges' = user_challenges
       /\ \A t \in Tasks :
            LET r == request[t] IN
            (/\ AuthStep(t)
             /\ WellFormedHeaders(r) /\ KnownUser(r)
             /\ SignsStoredChallenge(r))
                => /\ status'[t] # FORBIDDEN
                   /\ (SignsBody(r) /\ r.body.complete) => pc'[t] = "acquire"
    ]_vars

\* C12 witness: with one challenge ever generated, a request that
\* authenticated with its signature has been answered 200 and a second
\* request carrying the same challenge signature has authenticated too.
C12_Witness ==
    \E t1, t2 \in Tasks :
        /\ t1 # t2
        /\ Len(issued) = 1
        /\ pc[t1] = "done" /\ status[t1] = OK
        /\ pc[t2] = "done" /\ status[t2] = OK
        /\ request[t1].kind = "register" /\ request[t2].kind = "deregister"
        /\ request[t1].challenge = request[t2].challenge

\* C14 (P1): every record of the registry is stored under its own name, so
\* no name has more than one record.
C14_RegistrationUniqueness ==
    /\ \A n \in DOMAIN sensors : sensors[n].name = n
    /\ \A b \in Bodies :
          Cardinality({n \in DOMAIN sensors : sensors[n].name = b.name}) <= 1

\* C14 witness: after a register, a deregister and a second register of the
\* same name with other key material, the registry holds that second
\* record, and one task is registering another name.
C14_Witness ==
    \E t1, t2 \in Tasks :
        /\ "s1" \in DOMAIN sensors /\ sensors["s1"].key = 2
        /\ pc[t1] = "done" /\ status[t1] = OK /\ request[t1].kind = "deregister"
        /\ request[t1].body.name = "s1"
        /\ pc[t2] = "insert" /\ sensor[t2].name = "s2"

\* The connection task takes its dispatch step: the registry lookup.
DispatchStep == conn = "dispatch" /\ conn' # "dispatch"

WellFormed(d) ==
    /\ d.mic
    /\ d.name = S1
    /\ "s1" \in DOMAIN sensors /\ d.key = sensors["s1"].key

\* A frame for the registered sensor s1 whose packet fails decryption.
MicFails(d) ==
    /\ d.name = S1
    /\ "s1" \in DOMAIN sensors
    /\ ~d.mic \/ d.key # sensors["s1"].key

\* The garbage in front of the frames holds no '>'.
NoOpenInGarbage == \A j \in 1 .. Len(sent.garbage) : sent.garbage[j] # GT

\* C15 (P4): a packet that fails decryption sends the task back to the top
\* of its loop with the connection open and nothing logged for it; and on a
\* stream whose first frame fails decryption and whose second frame is
\* well formed, the connection stays open until the stream ends and the
\* second frame's plaintext is logged.
C15_FaultIsolation ==
    [][/\ (conn = "decrypt" /\ conn' # "decrypt"
            /\ \E j \in 1 .. Len(encrypted_packet) :
                  \/ encrypted_packet[j].v >= 0
                  \/ encrypted_packet[j].key # cipher
                  \/ encrypted_packet[j].nonce # nonce)
            => conn' = "seek_open" /\ stream' = stream /\ log' = log
       /\ (/\ Len(sent.frames) = 2
           /\ MicFails(sent.frames[1]) /\ WellFormed(sent.frames[2])
           /\ NoOpenInGarbage)
            => /\ conn' = "closed" => stream' = <<>>
               /\ conn' = "closed" => log' = <<sent.frames[2].text>>
    ]_vars

\* C15 witness: after garbage, a frame with a damaged tag and a good frame,
\* the stream is read to its end and the good frame's plaintext is logged.
C15_Witness ==
    /\ sent.garbage # <<>>
    /\ sent.frames = <<Damaged, GoodB>>
    /\ conn = "closed" /\ stream = <<>>
    /\ log = <<TextB>>

\* C16 as stated: whatever the garbage, once the stream that starts with
\* garbage and a well-formed frame has been read, that frame's plaintext
\* has been logged.
C16_AsStated ==
    (/\ Len(sent.frames) >= 1
     /\ WellFormed(sent.frames[1])
     /\ conn = "closed")
        => /\ Len(log) >= 1
           /\ log[1] = sent.frames[1].text

\* C16 amended (P3): the same for garbage that holds no '>' (it may hold
\* '<' and bytes that are not UTF-8).
C16_Resynchronization ==
    (/\ Len(sent.frames) >= 1
     /\ WellFormed(sent.frames[1])
     /\ NoOpenInGarbage
     /\ conn = "closed")
        => /\ Len(log) >= 1
           /\ log[1] = sent.frames[1].text

\* C16 witness: the plaintext of a good frame logged after garbage made of
\* a '<' and a byte that is not UTF-8.
C16_Witness ==
    /\ sent.garbage = <<LT, 255>>
    /\ sent.frames = <<GoodA>>
    /\ conn = "closed"
    /\ log = <<TextA>>

\* C17: a dispatch for a name that is not in the registry ends the
\* connection task, and an ended task stays ended: it reads no further
\* byte and logs nothing more, whatever is registered later.
C17_UnknownSensorCloses ==
    [][/\ (DispatchStep /\ sensor_name \notin DOMAIN sensors) => conn' = "closed"
       /\ conn = "closed" => /\ conn' = "closed"
                             /\ stream' = stream
                             /\ log' = log
    ]_vars

\* C17 witness: the task ended on the first frame, for s1, before s1 was
\* registered; s1 is registered now and the second frame is still unread.
C17_Witness ==
    /\ conn = "closed"
    /\ sensor_name = "s1"
    /\ log = <<>>
    /\ stream = ClientFrame(sent.frames[2])
    /\ "s1" \in DOMAIN sensors

\* C18: when the bytes between '>' and the next '<' are not UTF-8, the
\* task goes back to seeking '>' with exactly those bytes and the '<'
\* consumed; the connection stays open, the registry and the log are
\* untouched.
C18_BadNameResync ==
    [][(/\ conn = "read_name" /\ conn' # "read_name"
        /\ Find(stream, LT) > 0
        /\ \E j \in 1 .. Find(stream, LT) - 1 : stream[j].v \notin 0 .. 127)
        => /\ conn' = "seek_open"
           /\ stream' = SubSeq(stream, Find(stream, LT) + 1, Len(stream))
           /\ sensors' = sensors
           /\ log' = log
    ]_vars

\* C18 witness: the task is back at seeking '>' with the counter, length
\* and packet bytes of the frame with the bad name still unread.
C18_Witness ==
    /\ sent.garbage = <<>>
    /\ sent.frames = <<BadName, GoodB>>
    /\ conn = "seek_open"
    /\ Len(stream) = Len(StreamOf(sent)) - (Len(NotUtf8) + 2)
    /\ log = <<>>

\* The plaintexts logged are those of frames of the stream, in stream
\* order.
LogInOrder ==
    \E pick \in SUBSET (1 .. Len(sent.frames)) :
        /\ Len(log) = Cardinality(pick)
        /\ \A j \in 1 .. Len(log) :
              LET at == CHOOSE m \in pick :
                            Cardinality({q \in pick : q < m}) = j - 1
              IN  log[j] = sent.frames[at].text

\* C19: the plaintexts are logged in the order of their frames in the
\* stream, and no byte of the stream is read while a frame that has been
\* read waits for its dispatch or its decryption.
C19_ArrivalOrder ==
    [][/\ LogInOrder'
       /\ stream' # stream => conn \notin {"dispatch", "decrypt"}
    ]_vars

\* C19 witness: two good frames with different plaintexts, both logged,
\* first frame first.
C19_Witness ==
    /\ sent.frames = <<GoodA, GoodB>>
    /\ log = <<TextA, TextB>>
    /\ conn = "closed"

\* The key and the nonce the firmware used for sent frame j.
SensorKey(j) == sent.frames[j].key
SensorNonce(j) == generate_nonce(sent.frames[j].counter, Iv(ccm_data.iv))

\* Every frame the firmware wrote came out of a successful encryption.
AllEncrypted == \A j \in 1 .. Len(sent.frames) : sent.frames[j].mic

\* The server has worked out the key and the nonce of a frame.
AtDecrypt == conn = "decrypt"

\* C20: for the frame with counter c the sensor and the server derive the
\* same key and the same nonce, in every key interval, and every frame the
\* sensor encrypted comes out of the server as the plaintext that went in.
C20_AsStated ==
    AllEncrypted =>
        /\ AtDecrypt =>
             \E j \in 1 .. Len(sent.frames) :
                /\ cipher = SensorKey(j)
                /\ nonce = SensorNonce(j)
        /\ (conn = "closed" /\ sent.frames # <<>>) =>
             log = [j \in 1 .. Len(sent.frames) |-> sent.frames[j].text]

\* The number whose low bytes, lowest first, are `bytes`.
RECURSIVE from_le_bytes(_)
from_le_bytes(bytes) ==
    IF bytes = <<>> THEN 0 ELSE Head(bytes).v + 256 * from_le_bytes(Tail(bytes))

\* The epoch key of the data model: the hash of the epoch index followed by
\* the long-term key k, for counter c and interval i.
EpochKey(c, k, i) == sha256_16([interval |-> c \div i, rest |-> k])

\* C21: when the server decrypts a frame, its key is the epoch key worked
\* out from the counter the frame carried and from the key and the interval
\* of the sensor's record.
C21_AsStated ==
    AtDecrypt =>
        cipher = EpochKey(from_le_bytes(counter), sensors[sensor_name].key,
                          sensors[sensor_name].interval)

\* C22: the nonce the server decrypts a frame with is the five counter
\* bytes it read, in the order read, followed by the eight iv bytes of the
\* sensor's record; for a frame at the head of a stream these are the
\* counter bytes its sender wrote.
C22_NonceLayout ==
    AtDecrypt =>
        /\ Len(nonce) = COUNTER_SIZE + IV_SIZE
        /\ \A j \in 1 .. COUNTER_SIZE : nonce[j] = counter[j].v
        /\ \A j \in 1 .. IV_SIZE :
              nonce[COUNTER_SIZE + j] = Iv(sensors[sensor_name].key)[j]
        /\ (sent.garbage = <<>> /\ Len(sent.frames) = 1) =>
              nonce = to_le_bytes(sent.frames[1].counter)
                          \o Iv(sensors[sensor_name].key)

\* The server is about to decrypt a frame whose first counter byte is not
\* zero.
C22_Witness ==
    /\ AtDecrypt
    /\ sent.garbage = <<>> /\ Len(sent.frames) = 1
    /\ counter[1].v = 1
    /\ nonce[1] = 1

\* A round of the firmware's loop in which the encryption succeeded (ok)
\* or returned an error (~ok).
CycleOf(ok) == \E data \in {TextA, TextB} : SensorCycle(data, ok)

\* C24: a round in which the encryption fails leaves the counter alone and
\* writes nothing to the serial port; a round in which it succeeds adds one
\* to the counter, and nothing else changes the counter.
C24_AsStated ==
    [][/\ CycleOf(FALSE) => (sensor_counter' = sensor_counter /\ stream' = stream)
       /\ CycleOf(TRUE) => sensor_counter' = sensor_counter + 1
       /\ sensor_counter' # sensor_counter => CycleOf(TRUE)]_vars

\* The (counter, iv, key) triple of written frame j; the iv is that of the
\* firmware's key material.
Triple(j) == <<sent.frames[j].counter, ccm_data.iv, sent.frames[j].key>>

\* C23: no two frames the firmware has written to the serial port carry
\* the same (counter, iv, key) triple, whether or not the encryption
\* succeeded in the rounds that wrote them.
C23_AsStated ==
    \A i, j \in 1 .. Len(sent.frames) : i # j => Triple(i) # Triple(j)

\* The ciphertext and tag of written frame f, and the frame's bytes in the
\* wire layout of the protocol: '>' name '<', five counter bytes, one
\* length byte, the ciphertext and tag.
WirePacket(f) == encrypt(f.key, generate_nonce(f.counter, Iv(ccm_data.iv)), f.text)
WireLayout(f) ==
    <<Lit(GT)>> \o Lits(f.name) \o <<Lit(LT)>> \o Lits(to_le_bytes(f.counter))
        \o <<Lit(Len(WirePacket(f)))>> \o WirePacket(f)

\* The firmware has written one frame, out of a successful encryption.
OneFrame == Len(sent.frames) = 1 /\ sent.frames[1].mic

\* C25: a frame the firmware writes has the wire layout of the protocol,
\* and the decoder, having read it, holds the name, the counter, the
\* length and the body the firmware wrote.
C25_AsStated ==
    OneFrame =>
        /\ conn = "accepted" => stream = WireLayout(sent.frames[1])
        /\ conn = "dispatch" =>
              /\ sensor_name = Str(Lits(sent.frames[1].name))
              /\ counter = Lits(to_le_bytes(sent.frames[1].counter))
              /\ encrypted_packet_size = Len(WirePacket(sent.frames[1]))
              /\ encrypted_packet = WirePacket(sent.frames[1])

\* C26: every record in the registry has as many field types as fields, a
\* name that is not empty, and an interval of at least 1.
C26_AsStated ==
    \A n \in DOMAIN sensors :
        /\ Len(sensors[n].fields) = Len(sensors[n].field_types)
        /\ sensors[n].name # ""
        /\ sensors[n].interval >= 1

\* Task t takes the step of its register_sensor or deregister_sensor
\* handler that holds the write lock and ends the request.
MutationStep(t) == pc[t] \in {"locked", "insert"} /\ pc'[t] = "done"

\* The challenge header is the named user's signature over a challenge
\* that was generated for that user.
SignsOwnChallenge(req) ==
    \E c \in 1 .. Len(issued) :
        /\ issued[c] = req.user.val
        /\ req.challenge = Header("b64", Sign(authorized_users[req.user.val],
                                               ChallengeMsg(c)))

\* C27: a step changes the registry only when it is the locked step of a
\* register_sensor or deregister_sensor request that is answered 200, and
\* the change is that request's: its body's record stored under its name,
\* or the record of its name removed.  Steps that end a request with
\* another status, GET /challenge and the steps of the data connection
\* leave the registry as it was.  A request gets as far as the lock only
\* if its user is in the user table, its challenge header is that user's
\* signature over the challenge stored for the user, and its signature
\* header is that user's signature over the body.
C27_OnlyAuthorizedMutation ==
    [][/\ sensors' # sensors =>
            \E t \in Tasks :
                /\ MutationStep(t)
                /\ status'[t] = OK
                /\ KnownUser(request[t])
                /\ SignsOwnChallenge(request[t])
                /\ SignsBody(request[t])
                /\ sensors' = IF request[t].kind = "register"
                              THEN insert(sensors, request[t].body.name,
                                          SensorOf(request[t].body))
                              ELSE remove(sensors, request[t].body.name)
       /\ \A t \in Tasks :
            /\ (pc'[t] = "done" /\ pc[t] # "done" /\ status'[t] # OK) =>
                  sensors' = sensors
            /\ (AuthStep(t) /\ pc'[t] # "done") =>
                  /\ KnownUser(request[t])
                  /\ SignsStoredChallenge(request[t])
                  /\ SignsBody(request[t])]_vars

\* The registry has been changed twice, the connection task has read its
\* stream to the end, and the handler has just refused a request.
C27_Witness ==
    /\ sensors = EmptyMap
    /\ conn = "closed" /\ log # <<>>
    /\ pc["t1"] = "done" /\ status["t1"] = FORBIDDEN
    /\ Len(issued) = NumChallenges

\* A step in which the firmware writes a frame to the serial port, the
\* bytes of that frame, the counter bytes it carries and its last byte.
FrameWritten == conn = "accepted" /\ Len(stream') > Len(stream)
NewFrame == SubSeq(stream', Len(stream) + 1, Len(stream'))
CounterField == [j \in 1 .. U32_SIZE |-> NewFrame[Len(S1) + 2 + j].v]
LastByte == NewFrame[Len(NewFrame)]

\* C28: in every round that writes a frame, the frame's last bytes are
\* ciphertext, and the counter bytes of the nonce they were encrypted under
\* are the counter bytes the frame carries (the rest of the nonce's counter
\* being zero).
C28_AsStated ==
    [][FrameWritten =>
          /\ LastByte.v < 0
          /\ Len(LastByte.nonce) = COUNTER_SIZE + IV_SIZE
          /\ \A j \in 1 .. COUNTER_SIZE :
                LastByte.nonce[j] = IF j <= U32_SIZE THEN CounterField[j] ELSE 0]_vars

\* C29: the firmware replaces its key exactly in the rounds in which
\* floor(counter / KEY_INTERVAL) differs from the interval it remembers,
\* and every frame it encrypts, with counter c, is encrypted under the
\* epoch key of c: the hash of floor(c / KEY_INTERVAL) followed by the
\* long-term key that the example sensor is registered with.
C29_AsStated ==
    [][/\ \A ok \in BOOLEAN :
            CycleOf(ok) =>
                ((ccm_data'.key # ccm_data.key)
                    <=> (sensor_counter \div KEY_INTERVAL # prev_interval))
       /\ \A j \in 1 .. Len(sent'.frames) :
            sent'.frames[j].mic =>
                sent'.frames[j].key = EpochKey(sent'.frames[j].counter,
                                               sensors["s1"].key, KEY_INTERVAL)]_vars

\* The bytes of the connection read so far end with a '>'.
OpenRead ==
    LET all == StreamOf(sent)
        k == Len(all) - Len(stream)
    IN  k >= 1 /\ all[k].v = GT

\* The task returns because the stream has ended.
EofStep == conn' = "closed" /\ conn \notin {"closed", "dispatch"}

Wire == StreamOf(sent)

\* The positions of the '>' of the frames the peer wrote: the hand-written
\* frame's, and the position after it.
FrameStarts == {1, Len(sent.garbage) + 1}

\* The decoder holds the frame whose '>' is byte p of the stream and has
\* read that frame's bytes and no more: the name is s1, the counter is the
\* five bytes after the '<', the length is the value of the next byte, the
\* packet is that many bytes, and the next unread byte is the one after
\* them.
Holds(p) ==
    LET q == p + 1 + Len(S1)
        n == Wire[q + COUNTER_SIZE + 1].v
    IN  /\ q + COUNTER_SIZE + 1 + n <= Len(Wire)
        /\ sensor_name = "s1"
        /\ counter = SubSeq(Wire, q + 1, q + COUNTER_SIZE)
        /\ encrypted_packet_size = n
        /\ encrypted_packet = SubSeq(Wire, q + COUNTER_SIZE + 2, q + COUNTER_SIZE + 1 + n)
        /\ stream = SubSeq(Wire, q + COUNTER_SIZE + 2 + n, Len(Wire))

\* C31: for a frame with a registered UTF-8 name the decoder consumes the
\* name, the '<', five counter bytes, one length byte and as many body bytes
\* as the length byte says, whatever their values ('>' and '<' included),
\* and seeks the next '>' from the byte right after the body: a frame
\* that follows is decoded and logged.
C31_ExactConsumption ==
    /\ conn \in {"dispatch", "decrypt"}
          => \E p \in FrameStarts : p <= Len(Wire) /\ Holds(p)
    /\ conn = "seek_open"
          => \E p \in FrameStarts \cup {Len(Wire) + 1} :
                stream = SubSeq(Wire, p, Len(Wire))
    /\ conn = "closed" => log = [j \in 1 .. Len(sent.frames) |-> sent.frames[j].text]

\* C31 witness: the hand-written frame had '>' in its counter, '>' as its
\* length byte and '>' and '<' in its body, and the client's frame after it
\* has been logged.
C31_Witness ==
    /\ conn = "closed"
    /\ log = <<TextB>>
    /\ sent.garbage = RawFrame(S1, <<GT, LT, GT, LT, GT>>, GT, Marks(GT))
\* The connection task holds the registry's read lock.
ReadHeld == "c1" \in read_lock

\* C32: the ingestion task holds the registry's read lock only between
\* having a whole frame in hand and the end of the lookup for that frame:
\* it takes the lock once per frame, no writer holds the registry and the
\* registry does not change while it is held, no byte is read from the
\* socket and nothing is decrypted or logged while it is held, and the key
\* and the nonce the task goes on with are those of the one record found
\* under the frame's name in that lock scope.
C32_ReadLockScope ==
    [][/\ ReadHeld => /\ conn = "dispatch"
                      /\ write_lock = "free"
                      /\ sensors' = sensors
                      /\ stream' = stream
                      /\ log' = log
       /\ ReadHeld' => conn' = "dispatch"
       /\ conn \in {"seek_open", "read_name", "read_counter", "read_size",
                    "read_packet", "decrypt"} => ~ReadHeld
       /\ (DispatchStep /\ conn' = "decrypt")
            => /\ ReadHeld /\ ~ReadHeld'
               /\ sensor_name \in DOMAIN sensors
               /\ cipher' = sensors[sensor_name].key
               /\ nonce' = get_nonce(sensors[sensor_name], counter)
    ]_vars

\* C32 witness: the first frame was decrypted under the first record; s1
\* has since been registered again with other key material; the task holds
\* the read lock for the second frame while a handler waits for the write
\* lock.
C32_Witness ==
    /\ ReadHeld
    /\ log = <<TextA>>
    /\ "s1" \in DOMAIN sensors /\ sensors["s1"].key = 2
    /\ pc["t1"] = "acquire"
\* C33: whatever the second connection does (its peer sending nothing more
\* at any read, or its task ending in a panic), every register or
\* deregister request the handler task has taken up is answered, and every
\* frame read in full on the first connection is dispatched.
C33_OthersProgress ==
    /\ (pc["t1"] # "idle") ~> (pc["t1"] = "done" /\ status["t1"] # 0)
    /\ (conn = "dispatch") ~> (conn \in {"decrypt", "closed"})
    /\ <>(conn = "closed")

\* C33 witness: the second connection's task is parked in the middle of a
\* frame while a register has been answered 200 and the first connection's
\* second frame has been dispatched.
C33_Witness ==
    /\ other = "read_counter"
    /\ pc["t1"] = "done" /\ status["t1"] = OK
    /\ conn = "decrypt" /\ log = <<TextA>>

\* The task reads a name that has no bytes: the '<' is the next byte.
ReadsNoName == conn = "read_name" /\ stream # <<>> /\ Head(stream).v = LT /\ conn' # "read_name"

\* C34: a frame with '>' immediately followed by '<' is taken by the
\* framing as a frame of the name "", and its registry lookup fails and
\* closes the connection, whatever register and deregister requests have
\* been served.
C34_AsStated ==
    [][/\ ReadsNoName => conn' = "read_counter" /\ sensor_name' = ""
       /\ (DispatchStep /\ sensor_name = "")
            => conn' = "closed" /\ close_event' = "WARN"
    ]_vars

\* The task leaves its decrypt step with a packet that decrypts.
DecryptsOk == conn = "decrypt" /\ conn' # "decrypt" /\ decrypt(cipher, nonce, encrypted_packet).ok

\* C35: after a frame whose decryption succeeds the decoder logs the
\* plaintext, whatever its bytes, and goes back to seeking the next '>' on
\* the same connection; a successful decryption never ends the task.
C35_AsStated ==
    [][DecryptsOk
        => /\ log' = Append(log, decrypt(cipher, nonce, encrypted_packet).bytes)
           /\ conn' = "seek_open"
    ]_vars

\* Handler task t holds the challenge table's lock, the registry's lock.
HoldsTable(t) == t \in challenge_lock
HoldsRegistry(t) == write_lock = t

\* Handler task t waits for the challenge table's lock, the registry's lock.
WaitsTable(t) ==
    pc[t] = "auth" /\ ~HoldsTable(t) /\ ReachesLock(request[t], authorized_users)
WaitsRegistry(t) == pc[t] = "acquire"

\* Some request or connection is being served.
Serving == (\E t \in Tasks : pc[t] # "idle") \/ conn # "closed"

\* Some task that is serving can take a step.
CanStep ==
    ENABLED ((\E t \in Tasks : ServeStep(t)
                /\ UNCHANGED <<returned, tcpVars, acked, sensorVars, otherVars>>)
             \/ IngestStep)

\* C36: no task holds the challenge table's lock and the registry's lock
\* at once, no task waits for one of them while it holds the other (the
\* connection task never touches the challenge table), and whenever a
\* request or a connection is being served some task can take a step: no
\* interleaving of challenge, register, deregister and ingestion tasks
\* deadlocks.
C36_NoLockCycle ==
    /\ \A t \in Tasks :
          /\ ~(HoldsTable(t) /\ HoldsRegistry(t))
          /\ ~(HoldsTable(t) /\ WaitsRegistry(t))
          /\ ~(HoldsRegistry(t) /\ WaitsTable(t))
    /\ read_lock # {} => write_lock = "free"
    /\ Serving => CanStep

\* C36 witness: one handler holds the challenge table's read lock while
\* the other holds the registry's write lock and the connection task waits
\* for the registry's read lock.
C36_Witness ==
    \E t1, t2 \in Tasks :
        /\ HoldsTable(t1)
        /\ HoldsRegistry(t2)
        /\ conn = "dispatch" /\ "c1" \notin read_lock

\* Task t1 authenticates a register request of the client that signs the
\* challenge stored for its user.
ClientRegisters ==
    /\ AuthStep("t1")
    /\ request["t1"] \in {sensor_action("register", Body("s1", 1, TRUE), c) : c \in Challenges}
    /\ SignsStoredChallenge(request["t1"])

\* C37: the request the client's register action sends for the example
\* sensor, signed over the challenge it fetched, passes the server's
\* authentication and parsing pipeline as the example sensor's record (and
\* is then answered by the register contract: 200, the sensor stored).
C37_AsStated ==
    [][ClientRegisters
        => /\ pc'["t1"] = "acquire"
           /\ sensor'["t1"] = Sensor("s1", 1)
    ]_vars
====
